---- MODULE Spec2Model ----
(***************************************************************************)
(* SoundFlow FFmpeg codec bridge (src/Native/ffmpeg-codec).                *)
(*                                                                         *)
(* The decoder and the encoder of soundflow-ffmpeg.c as state machines.    *)
(* The codec/container engine (libavformat, libavcodec, libswresample) is  *)
(* modelled by its contract: a container is a sequence of packets, each    *)
(* tagged with a stream index; a packet of the audio stream decodes to one *)
(* frame of FrameLen samples; the codec may hold back up to `delay` frames *)
(* until it is fed again or drained; the resampler (equal rates, so its    *)
(* buffering path) is a FIFO of samples.  Samples carry their 1-based      *)
(* position in the audio stream, so that sequences can be compared.        *)
(*                                                                         *)
(* A C `int` is IntBits wide here (two's complement), int64_t values are   *)
(* plain integers: frame counts beyond the int range are narrowed by the   *)
(* casts of the source exactly as the build narrows them.                  *)
(***************************************************************************)
EXTENDS Integers, Sequences, FiniteSets, TLC

\* ------------------------------------------------------------------ bounds
MaxPackets == 2
IntBits == 3
MaxFrameCount == 3
MaxCalls == 3
MaxWrites == 2
MaxErrors == 1
MaxLiveCalls == 2

\* ------------------------------------------------- soundflow-ffmpeg.h enums
\* (the SF_ prefix of the source names is dropped: TLA+ reserves it for fairness)
SAMPLE_FORMAT_UNKNOWN == 0
SAMPLE_FORMAT_U8 == 1
SAMPLE_FORMAT_S16 == 2
SAMPLE_FORMAT_S24 == 3
SAMPLE_FORMAT_S32 == 4
SAMPLE_FORMAT_F32 == 5

RESULT_SUCCESS == 0
RESULT_ERROR_INVALID_ARGS == -1
RESULT_ERROR_ALLOCATION_FAILED == -2
RESULT_DECODER_ERROR_OPEN_INPUT == -10
RESULT_DECODER_ERROR_FIND_STREAM_INFO == -11
RESULT_DECODER_ERROR_NO_AUDIO_STREAM == -12
RESULT_DECODER_ERROR_CODEC_NOT_FOUND == -13
RESULT_DECODER_ERROR_CODEC_CONTEXT_ALLOC == -14
RESULT_DECODER_ERROR_CODEC_OPEN_FAILED == -15
RESULT_DECODER_ERROR_INVALID_TARGET_FORMAT == -16
RESULT_DECODER_ERROR_RESAMPLER_INIT_FAILED == -17
RESULT_DECODER_ERROR_PACKET_FRAME_ALLOC == -18
RESULT_DECODER_ERROR_SEEK_FAILED == -19
RESULT_DECODER_ERROR_DECODING_FAILED == -20
RESULT_ENCODER_ERROR_FORMAT_NOT_FOUND == -30
RESULT_ENCODER_ERROR_CODEC_NOT_FOUND == -31
RESULT_ENCODER_ERROR_STREAM_ALLOC == -32
RESULT_ENCODER_ERROR_CODEC_CONTEXT_ALLOC == -33
RESULT_ENCODER_ERROR_CODEC_OPEN_FAILED == -34
RESULT_ENCODER_ERROR_CONTEXT_PARAMS == -35
RESULT_ENCODER_ERROR_WRITE_HEADER == -36
RESULT_ENCODER_ERROR_INVALID_INPUT_FORMAT == -37
RESULT_ENCODER_ERROR_RESAMPLER_INIT_FAILED == -38
RESULT_ENCODER_ERROR_PACKET_FRAME_ALLOC == -39
RESULT_ENCODER_ERROR_ENCODING_FAILED == -40
RESULT_ENCODER_ERROR_WRITE_FAILED == -41

\* ------------------------------------------------ engine values the code uses
AV_SAMPLE_FMT_NONE == -1
AV_SAMPLE_FMT_U8 == 0
AV_SAMPLE_FMT_S16 == 1
AV_SAMPLE_FMT_S32 == 2
AV_SAMPLE_FMT_FLT == 3
AV_SAMPLE_FMT_DBL == 4
AV_SAMPLE_FMT_U8P == 5
AV_SAMPLE_FMT_S16P == 6
AV_SAMPLE_FMT_S32P == 7
AV_SAMPLE_FMT_FLTP == 8
AV_SAMPLE_FMT_DBLP == 9
AV_SAMPLE_FMT_S64 == 10
AV_SAMPLE_FMT_S64P == 11

\* what a caller's variable holds before a call writes to it
Unwritten == -99

\* (int)x of the build: x reduced modulo 2^IntBits into the signed range
Pow2(n) == 2 ^ n
IntMax == Pow2(IntBits - 1) - 1
ToInt(x) == ((x + Pow2(IntBits - 1)) % Pow2(IntBits)) - Pow2(IntBits - 1)

Min(a, b) == IF a < b THEN a ELSE b

\* -------------------------------------------------------- sample formats
\* (a variant without the case for 24-bit samples)
to_ffmpeg_sample_format_no_s24(format) ==
    CASE format = SAMPLE_FORMAT_U8 -> AV_SAMPLE_FMT_U8
      [] format = SAMPLE_FORMAT_S16 -> AV_SAMPLE_FMT_S16
      [] format = SAMPLE_FORMAT_S32 -> AV_SAMPLE_FMT_S32
      [] format = SAMPLE_FORMAT_F32 -> AV_SAMPLE_FMT_FLT
      [] OTHER -> AV_SAMPLE_FMT_NONE
\* lines 49-59
to_ffmpeg_sample_format(format) ==
    CASE format = SAMPLE_FORMAT_U8 -> AV_SAMPLE_FMT_U8
      [] format = SAMPLE_FORMAT_S16 -> AV_SAMPLE_FMT_S16
      [] format = SAMPLE_FORMAT_S24 -> AV_SAMPLE_FMT_S32
      [] format = SAMPLE_FORMAT_S32 -> AV_SAMPLE_FMT_S32
      [] format = SAMPLE_FORMAT_F32 -> AV_SAMPLE_FMT_FLT
      [] OTHER -> AV_SAMPLE_FMT_NONE

\* av_get_bytes_per_sample of the engine, for the formats the bridge produces
av_get_bytes_per_sample(sample_fmt) ==
    CASE sample_fmt = AV_SAMPLE_FMT_U8 -> 1
      [] sample_fmt = AV_SAMPLE_FMT_S16 -> 2
      [] sample_fmt = AV_SAMPLE_FMT_S32 -> 4
      [] sample_fmt = AV_SAMPLE_FMT_FLT -> 4
      [] OTHER -> 0

\* (a variant that knows the interleaved layouts only)
from_ffmpeg_sample_format_interleaved_only(format) ==
    CASE format = AV_SAMPLE_FMT_U8 -> SAMPLE_FORMAT_U8
      [] format = AV_SAMPLE_FMT_S16 -> SAMPLE_FORMAT_S16
      [] format = AV_SAMPLE_FMT_S32 -> SAMPLE_FORMAT_S32
      [] format = AV_SAMPLE_FMT_FLT -> SAMPLE_FORMAT_F32
      [] OTHER -> SAMPLE_FORMAT_UNKNOWN
\* lines 61-74
from_ffmpeg_sample_format(format) ==
    CASE format = AV_SAMPLE_FMT_U8 \/ format = AV_SAMPLE_FMT_U8P -> SAMPLE_FORMAT_U8
      [] format = AV_SAMPLE_FMT_S16 \/ format = AV_SAMPLE_FMT_S16P -> SAMPLE_FORMAT_S16
      [] format = AV_SAMPLE_FMT_S32 \/ format = AV_SAMPLE_FMT_S32P -> SAMPLE_FORMAT_S32
      [] format = AV_SAMPLE_FMT_FLT \/ format = AV_SAMPLE_FMT_FLTP -> SAMPLE_FORMAT_F32
      [] OTHER -> SAMPLE_FORMAT_UNKNOWN

\* the AVSampleFormat values the engine reports: the enumerated ones and the
\* value after the last
EngineFormats == AV_SAMPLE_FMT_NONE..(AV_SAMPLE_FMT_S64P + 1)

\* the SFSampleFormat values a caller passes: the enumerated ones and the two
\* values next to them
SampleFormats == (SAMPLE_FORMAT_UNKNOWN - 1)..(SAMPLE_FORMAT_F32 + 1)

VARIABLES
    \* the decoder instance and the engine objects it owns
    dstate,       \* "created" | "ready" | "failed" | "freed"
    stream_index, \* decoder->stream_index
    res,          \* resource -> "none" | "live" | "freed"
    ptr,          \* pointer field -> "null" | "set"
    faults,       \* memory faults committed so far
    \* the input and the engine's state
    container,    \* the packets of the input, each a stream index
    audio,        \* the index of the input's audio stream
    delay,        \* frames the codec holds back
    cpos,         \* demuxer position: index of the next packet
    cq,           \* frames inside the codec
    cdraining,    \* the codec has received the end-of-input sentinel
    sentinels,    \* sentinels submitted to the codec since it was opened or flushed
    discard,      \* stream -> the stream is marked AVDISCARD_ALL
    swrbuf,       \* samples buffered inside the resampler
    \* the call in progress and the last return
    rd,           \* frame of sf_decoder_read_pcm_frames
    ret,          \* what the last API call returned
    \* bookkeeping of the exploration
    expect,       \* position an undisturbed sequential read delivers next, 0 unknown
    seeked,       \* a seek has been attempted since init
    seekok,       \* a seek has succeeded since init
    init_fail,    \* the stage sf_decoder_init stopped at, "none" when it succeeded
    ncalls,       \* read, seek and write calls made
    nerrs,        \* engine and callback failures injected so far
    \* the encoder instance and the engine objects it drives
    estate,       \* "absent" | "created" | "ready" | "init_failed" | "freed" | "crashed"
    next_pts,     \* encoder->next_pts
    eq,           \* frames inside the encoding codec, not yet emitted as packets
    eflushed,     \* the encoding codec has received the end-of-input sentinel
    edelay,       \* frames the encoding codec holds back
    pb_error,     \* format_ctx->pb->error: the first error of the write adapter
    pending,      \* bytes wait in the staging buffer of the write adapter
    wr,           \* frame of sf_encoder_write_pcm_frames / sf_encoder_free
    submitted,    \* the frames stamped and handed to encode_and_write
    shortSeen,    \* the write callback has returned a short count
    observedWF,   \* a call has returned RESULT_ENCODER_ERROR_WRITE_FAILED
    einit_fail,   \* the stage sf_encoder_init stopped at, "none" when it succeeded
    efaults,      \* memory faults the encoder committed so far
    eres,         \* encoder resource -> "none" | "live" | "freed"
    hdr,          \* container headers written successfully
    trl,          \* calls of av_write_trailer on the muxing context
    accepted,     \* pts of the frames of the writes that returned success
    handed        \* packets handed to av_interleaved_write_frame

decvars == <<dstate, stream_index, res, ptr, faults, container, audio, delay, cpos,
             cq, cdraining, sentinels, discard, swrbuf, rd, expect, seeked, seekok,
             init_fail>>
encvars == <<estate, next_pts, eq, eflushed, edelay, pb_error, pending, wr,
             submitted, shortSeen, observedWF, einit_fail, efaults, eres, hdr, trl,
             accepted, handed>>
\* what a write never touches
eobjs == <<einit_fail, efaults, eres, hdr>>
vars == <<decvars, encvars, ret, ncalls, nerrs>>
\* what a read or a seek never touches
dobjs == <<init_fail, dstate, stream_index, res, ptr, faults, container, audio, delay,
           discard>>

Streams == {0, 1}
\* the input's audio stream is its second stream
AudioStreams == {1}
\* a codec emits each frame at once, or holds one frame back
Delays == {0, 1}
Resources == {"decoder", "format_ctx", "io_buffer", "avio_ctx", "codec_ctx",
              "swr_ctx", "packet", "frame"}
Fields == {"format_ctx", "pb", "codec_ctx", "swr_ctx", "packet", "frame"}

Containers == UNION {[1..n -> Streams] : n \in 0..MaxPackets}

Idle == [pc |-> "idle", frameCount |-> 0, frames_read |-> 0, draining |-> FALSE,
         outbuf |-> <<>>, rem |-> 0, err |-> FALSE, touched |-> FALSE, start |-> 0,
         fresh |-> FALSE, revived |-> FALSE]
NoRet == [op |-> "none", result |-> 0, frameCount |-> 0, nullArg |-> FALSE, format |-> 0,
          bps |-> 0, inj |-> "none", hfail |-> FALSE, held |-> FALSE, fresh |-> FALSE,
          out |-> Unwritten, outbuf |-> <<>>, rem |-> 0, err |-> FALSE,
          touched |-> FALSE, start |-> 0, short |-> FALSE, codecErr |-> FALSE,
          order |-> <<>>, revived |-> FALSE]

Ret(op, result) == [NoRet EXCEPT !.op = op, !.result = result]

\* ------------------------------------------------------------ sf_decoder_init
\* The stages of sf_decoder_init in source order; "none": nothing fails.
InitStages == <<"format_ctx_alloc", "io_buffer_alloc", "avio_alloc", "open_input",
                "find_stream_info", "no_audio_stream", "codec_not_found",
                "codec_ctx_alloc", "codec_open", "invalid_target_format",
                "resampler_init", "packet_frame_alloc", "none">>

StageIdx(s) == CHOOSE i \in 1..Len(InitStages) : InitStages[i] = s

\* stages the engine can make fail (the target format is the caller's input)
EngineStages == {InitStages[i] : i \in 1..Len(InitStages)} \ {"invalid_target_format"}

\* (a variant that never looks at the target format)
FirstFailingEngineOnly(inj, target_format) == inj
\* (a variant that validates the target format before anything else)
FirstFailingFormatFirst(inj, target_format) ==
    IF to_ffmpeg_sample_format(target_format) = AV_SAMPLE_FMT_NONE
    THEN "invalid_target_format"
    ELSE inj
\* the first stage that fails, given the engine failure and the target format
FirstFailing(inj, target_format) ==
    IF /\ to_ffmpeg_sample_format(target_format) = AV_SAMPLE_FMT_NONE
       /\ StageIdx(inj) > StageIdx("invalid_target_format")
    THEN "invalid_target_format"
    ELSE inj

Passed(fail, s) == StageIdx(fail) > StageIdx(s)

InitResult(fail) ==
    CASE fail \in {"format_ctx_alloc", "io_buffer_alloc", "avio_alloc"} ->
                                       RESULT_ERROR_ALLOCATION_FAILED
      [] fail = "open_input" -> RESULT_DECODER_ERROR_OPEN_INPUT
      [] fail = "find_stream_info" -> RESULT_DECODER_ERROR_FIND_STREAM_INFO
      [] fail = "no_audio_stream" -> RESULT_DECODER_ERROR_NO_AUDIO_STREAM
      [] fail = "codec_not_found" -> RESULT_DECODER_ERROR_CODEC_NOT_FOUND
      [] fail = "codec_ctx_alloc" -> RESULT_DECODER_ERROR_CODEC_CONTEXT_ALLOC
      [] fail = "codec_open" -> RESULT_DECODER_ERROR_CODEC_OPEN_FAILED
      [] fail = "invalid_target_format" -> RESULT_DECODER_ERROR_INVALID_TARGET_FORMAT
      [] fail = "resampler_init" -> RESULT_DECODER_ERROR_RESAMPLER_INIT_FAILED
      [] fail = "packet_frame_alloc" -> RESULT_DECODER_ERROR_PACKET_FRAME_ALLOC
      [] OTHER -> RESULT_SUCCESS

\* The engine objects after init stopped at `fail`.  half: at resampler_init
\* whether the context was allocated before swr_init failed; at
\* packet_frame_alloc whether the packet was the one that was allocated.
InitResources(fail, half) ==
    [r \in Resources |->
       CASE r = "decoder" -> "live"
         [] r = "format_ctx" ->
              IF ~Passed(fail, "format_ctx_alloc") THEN "none"
              ELSE IF fail \in {"io_buffer_alloc", "avio_alloc", "open_input"}
                   THEN "freed" ELSE "live"
         [] r = "io_buffer" ->
              IF ~Passed(fail, "io_buffer_alloc") THEN "none"
              ELSE IF fail = "avio_alloc" THEN "freed" ELSE "live"
         [] r = "avio_ctx" -> IF Passed(fail, "avio_alloc") THEN "live" ELSE "none"
         [] r = "codec_ctx" -> IF Passed(fail, "codec_ctx_alloc") THEN "live" ELSE "none"
         [] r = "swr_ctx" ->
              IF Passed(fail, "resampler_init") \/ (fail = "resampler_init" /\ half)
              THEN "live" ELSE "none"
         [] r = "packet" ->
              IF Passed(fail, "packet_frame_alloc") \/ (fail = "packet_frame_alloc" /\ half)
              THEN "live" ELSE "none"
         [] r = "frame" ->
              IF Passed(fail, "packet_frame_alloc") \/ (fail = "packet_frame_alloc" /\ ~half)
              THEN "live" ELSE "none"]

\* The pointer fields init leaves behind: decoder->format_ctx keeps its value
\* when init frees the context itself (lines 128, 131) and is reset only by a
\* failing avformat_open_input.
InitPointers(fail, half) ==
    LET r == InitResources(fail, half) IN
    [f \in Fields |->
       CASE f = "format_ctx" ->
              IF Passed(fail, "format_ctx_alloc") /\ fail # "open_input"
              THEN "set" ELSE "null"
         [] f = "pb" -> IF Passed(fail, "avio_alloc") /\ fail # "open_input"
                        THEN "set" ELSE "null"
         [] OTHER -> IF r[f] = "live" THEN "set" ELSE "null"]

sf_decoder_init(inj, target_format, half) ==
    LET fail == FirstFailing(inj, target_format) IN
    /\ dstate = "created"
    /\ rd.pc = "idle"
    /\ res' = InitResources(fail, half)
    /\ ptr' = InitPointers(fail, half)
    /\ stream_index' = IF Passed(fail, "find_stream_info")
                       THEN (IF fail = "no_audio_stream" THEN -1 ELSE audio)
                       ELSE stream_index
    \* lines 147-151: every stream but the selected one is marked
    /\ discard' = IF Passed(fail, "no_audio_stream")
                  THEN [s \in Streams |-> s # audio]
                  ELSE discard
    /\ dstate' = IF fail = "none" THEN "ready" ELSE "failed"
    \* line 170: decoder->target_bytes_per_sample as init leaves it
    /\ ret' = [Ret("init", InitResult(fail))
                 EXCEPT !.format = target_format,
                        !.inj = inj,
                        !.bps = IF Passed(fail, "invalid_target_format")
                                THEN av_get_bytes_per_sample(
                                         to_ffmpeg_sample_format(target_format))
                                ELSE 0]
    /\ expect' = 1
    /\ init_fail' = fail
    /\ UNCHANGED <<encvars, seeked, seekok, faults, container, audio, delay, cpos, cq,
                   cdraining, sentinels, swrbuf,
                   rd, ncalls, nerrs>>

\* ------------------------------------------------------------ sf_decoder_free
\* One release of resource r through a pointer that is set.
Release(rs, r) == [rs EXCEPT ![r] = "freed"]
ReleaseFault(rs, r) ==
    IF rs[r] = "freed" THEN {"double_free"}
    ELSE IF rs[r] = "none" THEN {"invalid_free"} ELSE {}

\* (a variant that tears the container context down before its I/O context)
DecFreeOrderContextFirst ==
    <<"codec_ctx", "format_ctx", "io_buffer", "avio_ctx", "packet", "frame", "swr_ctx",
      "decoder">>
\* lines 317-331: the objects in the order of the calls that release them
DecFreeOrder ==
    <<"codec_ctx", "io_buffer", "avio_ctx", "format_ctx", "packet", "frame", "swr_ctx",
      "decoder">>

\* pbread: what the read of format_ctx->pb yields when format_ctx is dangling
sf_decoder_free(pbread) ==
    LET dangling == ptr["format_ctx"] = "set" /\ res["format_ctx"] = "freed"
        pb == IF dangling THEN pbread ELSE ptr["pb"]
        r1 == IF ptr["codec_ctx"] = "set" THEN Release(res, "codec_ctx") ELSE res
        inCtx == ptr["format_ctx"] = "set"
        inPb == inCtx /\ pb = "set"
        r2 == IF inPb THEN Release(Release(r1, "io_buffer"), "avio_ctx") ELSE r1
        r3 == IF inCtx THEN Release(r2, "format_ctx") ELSE r2
        r4 == IF ptr["packet"] = "set" THEN Release(r3, "packet") ELSE r3
        r5 == IF ptr["frame"] = "set" THEN Release(r4, "frame") ELSE r4
        r6 == IF ptr["swr_ctx"] = "set" THEN Release(r5, "swr_ctx") ELSE r5
        f == (IF dangling THEN {"use_after_free"} ELSE {})
             \cup (IF inPb THEN ReleaseFault(r1, "io_buffer")
                                \cup ReleaseFault(r1, "avio_ctx") ELSE {})
             \cup (IF inCtx THEN ReleaseFault(r2, "format_ctx") ELSE {})
        \* the release call for r is made with an object behind it
        Reached(r) == CASE r = "decoder" -> TRUE
                        [] r = "format_ctx" -> inCtx
                        [] r \in {"io_buffer", "avio_ctx"} -> inPb
                        [] OTHER -> ptr[r] = "set"
    IN
    /\ dstate \in {"created", "ready", "failed"}
    /\ rd.pc = "idle"
    /\ (dangling \/ pbread = "null")
    /\ res' = Release(r6, "decoder")
    /\ ptr' = [fl \in Fields |-> "null"]
    /\ faults' = faults \cup f
    /\ dstate' = "freed"
    /\ ret' = [Ret("free", RESULT_SUCCESS) EXCEPT !.order = SelectSeq(DecFreeOrder, Reached)]
    /\ UNCHANGED <<encvars, init_fail, seeked, seekok, stream_index, container, audio, delay,
                   cpos, cq, cdraining, sentinels, discard,
                   swrbuf, rd, expect, ncalls, nerrs>>

\* ------------------------------------------------------- the engine's contract
\* the stream the decoder selected: its time base and sample rate
\* and the number of samples in each of its frames
Stream == [time_base |-> [num |-> 1, den |-> 4], sample_rate |-> 2, frame_size |-> 2]
FrameLen == Stream.frame_size

\* av_rescale_q(a, bq, cq): a * bq / cq rounded to nearest, halves away from zero
av_rescale_q(a, src, dst) ==
    LET b == src.num * dst.den
        c == src.den * dst.num
    IN IF a >= 0 THEN (a * b + c \div 2) \div c
                 ELSE -(((-a) * b + c \div 2) \div c)

AudioPackets(from) == {j \in from..Len(container) : container[j] = audio}
AudioBefore(i) == Cardinality({j \in 1..(i - 1) : container[j] = audio})

\* the frame the codec decodes from the packet at container index i
FrameOfPacket(i) == [n \in 1..FrameLen |-> AudioBefore(i) * FrameLen + n]
\* the presentation timestamp of that packet, in the stream's time base
PacketPts(i) == av_rescale_q(AudioBefore(i) * FrameLen,
                             [num |-> 1, den |-> Stream.sample_rate], Stream.time_base)

\* frames not yet delivered: in the container, in the codec, in the resampler
Remaining == FrameLen * Cardinality(AudioPackets(cpos)) + FrameLen * Len(cq) + Len(swrbuf)

\* (a variant whose codec never reports the end of the stream)
CodecForgetsEOF == FALSE
\* the reads have reached the end of the stream: the sentinel is with the
\* codec and nothing is left in the container, the codec or the resampler
Exhausted == cdraining /\ Remaining = 0
\* what avcodec_receive_frame answers
CodecHasFrame == IF cdraining THEN Len(cq) > 0 ELSE Len(cq) > delay
CodecAtEOF == cdraining /\ cq = <<>>

\* (a variant that converts all it has, whatever room the caller offers)
swr_convert_unbounded(buf, out_count, in, flush) ==
    IF flush /\ buf = <<>> THEN [n |-> 0, out |-> <<>>, buf |-> buf]
    ELSE [n |-> Len(buf) + Len(in), out |-> buf \o in, buf |-> <<>>]
\* swr_convert(swr, out, out_count, in, in_count) with equal rates: buffered
\* samples leave first, then the input as far as out_count allows, the rest of
\* the input is buffered.  A flush (in = NULL) of an empty buffer returns 0;
\* a negative out_count is returned as the error, and nothing is buffered.
swr_convert(buf, out_count, in, flush) ==
    IF flush /\ buf = <<>> THEN [n |-> 0, out |-> <<>>, buf |-> buf]
    ELSE IF out_count < 0 THEN [n |-> out_count, out |-> <<>>, buf |-> buf]
    ELSE LET n1 == Min(out_count, Len(buf))
             n2 == Min(Len(in), out_count - n1)
         IN [n |-> n1 + n2,
             out |-> SubSeq(buf, 1, n1) \o SubSeq(in, 1, n2),
             buf |-> SubSeq(buf, n1 + 1, Len(buf)) \o SubSeq(in, n2 + 1, Len(in))]

\* --------------------------------------------------- sf_decoder_read_pcm_frames
\* the frame counts tried: invalid ones, small ones, and ones beyond the int range
FrameCounts == ((-1)..MaxFrameCount)
               \cup {Pow2(IntBits) - 1, Pow2(IntBits), Pow2(IntBits) + 1}

Contiguous(seq, first) == \A i \in 1..Len(seq) : seq[i] = first + i - 1

\* the frame counts tried together with a null pointer: an invalid one and a
\* valid one
NullArgCounts == {0, 1}

\* line 201: the argument check of a read
ReadArgsAcceptZero(frameCount, nullArg) == nullArg \/ frameCount < 0
ReadArgsInvalid(frameCount, nullArg) == nullArg \/ frameCount <= 0

\* a read returns: the result, *out_frames_read, and the caller's buffer
ReadOutcome(result, out, outbuf, err, touched) ==
    /\ ret' = [NoRet EXCEPT !.op = "read", !.result = result,
                            !.frameCount = rd.frameCount, !.out = out,
                            !.outbuf = outbuf, !.rem = rd.rem, !.err = err,
                            !.touched = touched, !.start = rd.start,
                            !.fresh = rd.fresh, !.revived = rd.revived]
    /\ rd' = Idle
    /\ expect' = IF rd.start > 0 /\ ~err /\ ToInt(rd.frameCount) = rd.frameCount
                    /\ Contiguous(outbuf, rd.start)
                 THEN rd.start + Len(outbuf) ELSE 0

\* (a variant that reports no progress when the read fails)
ReadReturnNoProgress(result, frames_read, outbuf, err, touched) ==
    ReadOutcome(result, IF result = RESULT_SUCCESS THEN frames_read ELSE 0,
                outbuf, err, touched)
\* lines 246-247, 264-265, 277-278, 282-283: *out_frames_read = frames_read
ReadReturn(result, frames_read, outbuf, err, touched) ==
    ReadOutcome(result, frames_read, outbuf, err, touched)

\* lines 200-206: argument check and the locals
sf_decoder_read_pcm_frames(frameCount, nullArg) ==
    /\ dstate = "ready"
    /\ rd.pc = "idle"
    /\ ncalls < MaxCalls
    /\ ncalls' = ncalls + 1
    /\ IF ReadArgsInvalid(frameCount, nullArg)
       THEN /\ ret' = [NoRet EXCEPT !.op = "read", !.result = RESULT_ERROR_INVALID_ARGS,
                                    !.frameCount = frameCount, !.nullArg = nullArg,
                                    !.rem = Remaining, !.start = expect]
            /\ UNCHANGED <<rd, expect>>
       ELSE /\ rd' = [pc |-> "loop", frameCount |-> frameCount, frames_read |-> 0,
                      draining |-> FALSE, outbuf |-> <<>>, rem |-> Remaining,
                      err |-> FALSE, touched |-> FALSE, start |-> expect,
                      \* the call before this one was a seek that succeeded
                      fresh |-> (ret.op = "seek" /\ ret.result = RESULT_SUCCESS),
                      \* and that seek was made on an exhausted decoder
                      revived |-> (ret.op = "seek" /\ ret.revived)]
            /\ ret' = [NoRet EXCEPT !.op = "reading", !.frameCount = frameCount,
                                    !.out = 0]
            /\ UNCHANGED expect
    /\ UNCHANGED <<encvars, dobjs, seeked, seekok,
                   cpos, cq, cdraining, sentinels, swrbuf, nerrs>>

\* line 208: the loop condition fails
read_loop_exit ==
    /\ rd.pc = "loop"
    /\ ~(rd.frames_read < rd.frameCount)
    /\ ReadReturn(RESULT_SUCCESS, rd.frames_read, rd.outbuf, rd.err, rd.touched)
    /\ UNCHANGED <<encvars, dobjs, seeked, seekok,
                   cpos, cq, cdraining, sentinels, swrbuf, ncalls, nerrs>>

\* lines 210-226: a frame is received and resampled into the caller's buffer
read_receive_frame ==
    /\ rd.pc = "loop"
    /\ rd.frames_read < rd.frameCount
    /\ CodecHasFrame
    /\ LET r == swr_convert(swrbuf, ToInt(rd.frameCount - rd.frames_read), Head(cq), FALSE)
       IN /\ rd' = [rd EXCEPT !.touched = TRUE,
                              !.frames_read = IF r.n > 0 THEN @ + r.n ELSE @,
                              !.outbuf = @ \o r.out]
          /\ swrbuf' = r.buf
    /\ cq' = Tail(cq)
    /\ UNCHANGED <<encvars, dobjs, seeked, seekok,
                   cpos, cdraining, sentinels, ret, expect, ncalls, nerrs>>

\* lines 229-239: the do-while that drains the resampler
RECURSIVE DrainResampler(_, _, _, _)
DrainResampler(buf, frameCount, frames_read, outbuf) ==
    LET r == swr_convert(buf, ToInt(frameCount - frames_read), <<>>, TRUE)
        fr == IF r.n > 0 THEN frames_read + r.n ELSE frames_read
    IN IF r.n > 0 /\ fr < frameCount
       THEN DrainResampler(r.buf, frameCount, fr, outbuf \o r.out)
       ELSE [buf |-> r.buf, frames_read |-> fr, outbuf |-> outbuf \o r.out]

\* lines 227-243: the codec reports end of stream
read_receive_eof ==
    /\ rd.pc = "loop"
    /\ rd.frames_read < rd.frameCount
    /\ ~CodecHasFrame
    /\ CodecAtEOF
    /\ LET d == DrainResampler(swrbuf, rd.frameCount, rd.frames_read, rd.outbuf)
       IN /\ swrbuf' = d.buf
          /\ ReadReturn(RESULT_SUCCESS, d.frames_read, d.outbuf, rd.err, TRUE)
    /\ UNCHANGED <<encvars, dobjs, seeked, seekok,
                   cpos, cq, cdraining, sentinels, ncalls, nerrs>>

\* lines 244-248: the codec reports a decoding error
read_receive_error ==
    /\ rd.pc = "loop"
    /\ rd.frames_read < rd.frameCount
    /\ nerrs < MaxErrors
    /\ nerrs' = nerrs + 1
    /\ ReadReturn(RESULT_DECODER_ERROR_DECODING_FAILED, rd.frames_read, rd.outbuf, TRUE, TRUE)
    /\ UNCHANGED <<encvars, dobjs, seeked, seekok,
                   cpos, cq, cdraining, sentinels, swrbuf, ncalls>>

\* (a variant that goes on to the container whether or not the sentinel was sent)
read_receive_eagain_always_feed ==
    /\ rd.pc = "loop"
    /\ rd.frames_read < rd.frameCount
    /\ ~CodecHasFrame
    /\ ~CodecAtEOF
    /\ rd' = [rd EXCEPT !.pc = "feed", !.touched = TRUE]
    /\ UNCHANGED <<ret, expect>>
    /\ UNCHANGED <<encvars, dobjs, seeked, seekok,
                   cpos, cq, cdraining, sentinels, swrbuf, ncalls, nerrs>>
\* lines 250-254: the codec needs more input
read_receive_eagain ==
    /\ rd.pc = "loop"
    /\ rd.frames_read < rd.frameCount
    /\ ~CodecHasFrame
    /\ ~CodecAtEOF
    /\ IF rd.draining
       THEN ReadReturn(RESULT_SUCCESS, rd.frames_read, rd.outbuf, rd.err, TRUE)
       ELSE /\ rd' = [rd EXCEPT !.pc = "feed", !.touched = TRUE]
            /\ UNCHANGED <<ret, expect>>
    /\ UNCHANGED <<encvars, dobjs, seeked, seekok,
                   cpos, cq, cdraining, sentinels, swrbuf, ncalls, nerrs>>

\* (a variant whose demuxer hands out the same packet again)
av_read_frame_stuck(pos) == pos
\* line 258: the demuxer's position after av_read_frame returned a packet
av_read_frame(pos) == pos + 1

\* (a variant that takes the packets of every stream)
PacketSelectedAny(pos) == TRUE
\* line 261: the packet at pos belongs to the selected stream
PacketSelected(pos) == container[pos] = stream_index

\* lines 257-269: one packet is read; sendOk: avcodec_send_packet accepts it
read_feed_packet(sendOk) ==
    /\ rd.pc = "feed"
    /\ cpos <= Len(container)
    /\ cpos' = av_read_frame(cpos)
    /\ IF PacketSelected(cpos)
       THEN IF sendOk
            THEN /\ cq' = Append(cq, FrameOfPacket(cpos))
                 /\ rd' = [rd EXCEPT !.pc = "loop"]
                 /\ UNCHANGED <<ret, expect, nerrs>>
            ELSE /\ nerrs < MaxErrors
                 /\ nerrs' = nerrs + 1
                 /\ ReadReturn(RESULT_DECODER_ERROR_DECODING_FAILED, rd.frames_read,
                               rd.outbuf, TRUE, TRUE)
                 /\ UNCHANGED cq
       ELSE /\ sendOk
            /\ rd' = [rd EXCEPT !.pc = "loop"]
            /\ UNCHANGED <<cq, ret, expect, nerrs>>
    /\ UNCHANGED <<encvars, dobjs, seeked, seekok,
                   cdraining, sentinels, swrbuf, ncalls>>

\* lines 270-274: end of input; the sentinel is sent and its result ignored.
\* sendOk: the codec accepted the sentinel and entered its draining mode.
read_feed_eof(sendOk) ==
    /\ rd.pc = "feed"
    /\ cpos > Len(container)
    /\ sentinels' = sentinels + 1
    /\ IF sendOk
       THEN /\ cdraining' = TRUE
            /\ rd' = [rd EXCEPT !.pc = "loop", !.draining = TRUE]
            /\ UNCHANGED nerrs
       ELSE /\ nerrs < MaxErrors
            /\ nerrs' = nerrs + 1
            /\ rd' = [rd EXCEPT !.pc = "loop", !.draining = TRUE, !.err = TRUE]
            /\ UNCHANGED cdraining
    /\ UNCHANGED <<encvars, dobjs, seeked, seekok,
                   cpos, cq, swrbuf, ret, expect, ncalls>>

\* lines 275-279: av_read_frame fails with an error other than end of input
read_feed_error ==
    /\ rd.pc = "feed"
    /\ nerrs < MaxErrors
    /\ nerrs' = nerrs + 1
    /\ ReadReturn(RESULT_DECODER_ERROR_DECODING_FAILED, rd.frames_read, rd.outbuf, TRUE, TRUE)
    /\ UNCHANGED <<encvars, dobjs, seeked, seekok,
                   cpos, cq, cdraining, sentinels, swrbuf, ncalls>>

\* ------------------------------------------------- sf_decoder_seek_to_pcm_frame
SeekTargets == 0..(MaxPackets * FrameLen)

\* av_seek_frame(.., timestamp, AVSEEK_FLAG_BACKWARD): the audio packets at or
\* before the timestamp; the demuxer lands on the last of them
SeekCandidates(timestamp) == {j \in AudioPackets(1) : PacketPts(j) <= timestamp}
Last(S) == CHOOSE j \in S : \A k \in S : k <= j

\* the demuxer may stand on packets of other streams stored right before it
Landings(p) == {q \in 1..p : \A j \in q..(p - 1) : container[j] # audio}

\* lines 302-310: packets are read and dropped up to and including the first
\* one of the selected stream; the position after the loop
RECURSIVE DiscardLoop(_)
DiscardLoop(pos) ==
    IF pos > Len(container) THEN pos
    ELSE IF container[pos] = stream_index THEN pos + 1
    ELSE DiscardLoop(pos + 1)

\* (a variant that keeps what the resampler has buffered)
swr_init_keep(buf) == buf
\* line 293: avcodec_flush_buffers drops the frames inside the codec
avcodec_flush_buffers(q) == <<>>
\* line 294: swr_init starts from an empty resampler
swr_init(buf) == <<>>

sf_decoder_seek_to_pcm_frame(frameIndex, seekOk, land) ==
    LET timestamp == av_rescale_q(frameIndex, [num |-> 1, den |-> Stream.sample_rate],
                                  Stream.time_base)
        cands == SeekCandidates(timestamp)
        ok == seekOk /\ cands # {}
    IN
    /\ dstate \in {"created", "ready"}
    /\ rd.pc = "idle"
    /\ ncalls < MaxCalls
    /\ ncalls' = ncalls + 1
    /\ IF dstate = "created"
       \* line 287: no format context yet
       THEN /\ seekOk /\ land = 1
            /\ ret' = [Ret("seek", RESULT_ERROR_INVALID_ARGS)
                         EXCEPT !.frameCount = frameIndex]
            /\ UNCHANGED <<seeked, seekok, cq, cdraining, sentinels, swrbuf, cpos,
                           expect, nerrs>>
       ELSE /\ seeked' = TRUE
            /\ seekok' = (seekok \/ ok)
            \* lines 293-294: the codec is flushed and the resampler re-initialised
            /\ cq' = avcodec_flush_buffers(cq)
            /\ cdraining' = FALSE
            /\ sentinels' = 0
            /\ swrbuf' = swr_init(swrbuf)
            /\ IF ok
               THEN /\ land \in Landings(Last(cands))
                    /\ cpos' = DiscardLoop(land)
                    /\ ret' = [Ret("seek", RESULT_SUCCESS)
                                 EXCEPT !.frameCount = frameIndex,
                                        !.held = (cq # <<>> \/ swrbuf # <<>>),
                                        !.revived = Exhausted]
                    /\ expect' = AudioBefore(Last(cands)) * FrameLen + 1
                    /\ UNCHANGED nerrs
               ELSE /\ land = 1
                    /\ (seekOk \/ nerrs < MaxErrors)
                    /\ nerrs' = IF seekOk THEN nerrs ELSE nerrs + 1
                    /\ ret' = [Ret("seek", RESULT_DECODER_ERROR_SEEK_FAILED)
                                 EXCEPT !.frameCount = frameIndex]
                    /\ UNCHANGED <<cpos, expect>>
    /\ UNCHANGED <<encvars, dobjs, rd>>

\* ------------------------------------------------------------------ decoder
DecInit(present) ==
    /\ dstate = IF present THEN "created" ELSE "absent"
    /\ stream_index = 0
    /\ res = [r \in Resources |-> IF r = "decoder" THEN "live" ELSE "none"]
    /\ ptr = [f \in Fields |-> "null"]
    /\ faults = {}
    /\ container \in (IF present THEN Containers ELSE {<<>>})
    /\ audio \in AudioStreams
    /\ delay \in (IF present THEN Delays ELSE {0})
    /\ cpos = 1
    /\ cq = <<>>
    /\ cdraining = FALSE
    /\ sentinels = 0
    /\ discard = [s \in Streams |-> FALSE]
    /\ swrbuf = <<>>
    /\ rd = Idle
    /\ expect = 0
    /\ seeked = FALSE
    /\ seekok = FALSE
    /\ init_fail = "-"

\* (a call's own guard on the instance stands before its inputs are drawn)
DecNext ==
    \/ /\ dstate = "created"
       /\ \E inj \in EngineStages, fmt \in SampleFormats,
             half \in BOOLEAN : sf_decoder_init(inj, fmt, half)
    \/ /\ dstate = "ready"
       /\ \E fc \in FrameCounts, nullArg \in BOOLEAN :
             /\ nullArg => fc \in NullArgCounts
             /\ sf_decoder_read_pcm_frames(fc, nullArg)
    \/ read_loop_exit
    \/ read_receive_frame
    \/ read_receive_eof
    \/ read_receive_error
    \/ read_receive_eagain
    \/ \E sendOk \in BOOLEAN : read_feed_packet(sendOk)
    \/ \E sendOk \in BOOLEAN : read_feed_eof(sendOk)
    \/ read_feed_error
    \/ /\ dstate \in {"created", "ready"}
       /\ \E fi \in SeekTargets, seekOk \in BOOLEAN, land \in 1..(MaxPackets + 1) :
             sf_decoder_seek_to_pcm_frame(fi, seekOk, land)
    \/ \E pbread \in {"null", "set"} : sf_decoder_free(pbread)


\* -------------------------------------------------------------------- encoder
AVERROR_EIO == -5
AVERROR_EINVAL == -22

\* lines 96-104: what the adapter returns to the engine for a callback result
\* (a variant that passes the callback's count through unexamined)
write_packet_callback_passthrough(bytes_written, buf_size) == ToInt(bytes_written)
\* bytes_written is the size_t the caller's callback returned; a count that is
\* not short is returned as (int)bytes_written (line 103)
write_packet_callback(bytes_written, buf_size) ==
    IF bytes_written < buf_size THEN AVERROR_EIO ELSE ToInt(bytes_written)

\* The staging buffer of the write adapter after the engine wrote into it.
\* flush: the engine hands the buffered bytes to the adapter now (it does so
\* only while pb->error is clear); short: the callback then returns one byte
\* less than it was given.  The first error sticks in pb->error.
AvioWrite(flush, short) ==
    LET called == flush /\ pb_error = 0
        size == 2
        r == write_packet_callback(IF short THEN size - 1 ELSE size, size)
    IN [called |-> called,
        short |-> called /\ short,
        error |-> IF called /\ r < 0 THEN r ELSE pb_error,
        pending |-> ~flush]

\* The stages of sf_encoder_init in source order; "none": nothing fails.
EncStages == <<"format_not_found", "output_ctx_alloc", "codec_not_found",
               "stream_alloc", "codec_ctx_alloc", "no_sample_fmts", "codec_open",
               "context_params", "write_header", "invalid_input_format",
               "resampler_init", "packet_frame_alloc", "none">>
EncStageIdx(s) == CHOOSE i \in 1..Len(EncStages) : EncStages[i] = s
\* stages the engine can make fail (avformat_write_header fails of its own
\* accord, line 419, or through the adapter); the input format is the caller's
EncEngineStages == {EncStages[i] : i \in 1..Len(EncStages)} \ {"invalid_input_format"}
EncPassed(fail, s) == EncStageIdx(fail) > EncStageIdx(s)

\* (a variant that validates the input format before it writes the header)
EncFirstFailingFormatFirst(inj, sampleFormat, headerFailed) ==
    IF /\ to_ffmpeg_sample_format(sampleFormat) = AV_SAMPLE_FMT_NONE
       /\ EncPassed(inj, "invalid_input_format")
    THEN "invalid_input_format"
    ELSE IF headerFailed /\ EncPassed(inj, "write_header") THEN "write_header"
    ELSE inj
\* the first stage that fails: the engine's failure, the header whose bytes
\* the callback cut short, or the input format without an engine counterpart
EncFirstFailing(inj, sampleFormat, headerFailed) ==
    IF headerFailed /\ EncPassed(inj, "write_header") THEN "write_header"
    ELSE IF /\ to_ffmpeg_sample_format(sampleFormat) = AV_SAMPLE_FMT_NONE
            /\ EncPassed(inj, "invalid_input_format")
    THEN "invalid_input_format"
    ELSE inj

\* lines 376-434: the return value for each stage
EncInitResult(fail) ==
    CASE fail \in {"format_not_found", "output_ctx_alloc"} ->
                                       RESULT_ENCODER_ERROR_FORMAT_NOT_FOUND
      [] fail \in {"codec_not_found", "no_sample_fmts"} ->
                                       RESULT_ENCODER_ERROR_CODEC_NOT_FOUND
      [] fail = "stream_alloc" -> RESULT_ENCODER_ERROR_STREAM_ALLOC
      [] fail = "codec_ctx_alloc" -> RESULT_ENCODER_ERROR_CODEC_CONTEXT_ALLOC
      [] fail = "codec_open" -> RESULT_ENCODER_ERROR_CODEC_OPEN_FAILED
      [] fail = "context_params" -> RESULT_ENCODER_ERROR_CONTEXT_PARAMS
      [] fail = "write_header" -> RESULT_ENCODER_ERROR_WRITE_HEADER
      [] fail = "invalid_input_format" -> RESULT_ENCODER_ERROR_INVALID_INPUT_FORMAT
      [] fail = "resampler_init" -> RESULT_ENCODER_ERROR_RESAMPLER_INIT_FAILED
      [] fail = "packet_frame_alloc" -> RESULT_ENCODER_ERROR_PACKET_FRAME_ALLOC
      [] OTHER -> RESULT_SUCCESS

EncResources == {"encoder", "format_ctx", "codec_ctx", "io_buffer", "avio_ctx",
                 "swr_ctx", "packet", "frame"}

\* The engine objects after init stopped at `fail`.  half: at resampler_init
\* whether the context was allocated before swr_init failed; at
\* packet_frame_alloc whether the packet was the one that was allocated.
EncInitResources(fail, half) ==
    [r \in EncResources |->
       CASE r = "encoder" -> "live"
         [] r = "format_ctx" ->
              IF EncPassed(fail, "output_ctx_alloc") THEN "live" ELSE "none"
         [] r = "codec_ctx" ->
              IF EncPassed(fail, "codec_ctx_alloc") THEN "live" ELSE "none"
         [] r \in {"io_buffer", "avio_ctx"} ->
              IF EncPassed(fail, "context_params") THEN "live" ELSE "none"
         [] r = "swr_ctx" ->
              IF EncPassed(fail, "resampler_init") \/ (fail = "resampler_init" /\ half)
              THEN "live" ELSE "none"
         [] r = "packet" ->
              IF EncPassed(fail, "packet_frame_alloc")
                     \/ (fail = "packet_frame_alloc" /\ half)
              THEN "live" ELSE "none"
         [] r = "frame" ->
              IF EncPassed(fail, "packet_frame_alloc")
                     \/ (fail = "packet_frame_alloc" /\ ~half)
              THEN "live" ELSE "none"]

\* lines 365-435.  The header is written into the adapter.  early: the muxer
\* hands it to the callback while it writes the header, and
\* avformat_write_header then answers pb->error; otherwise the bytes leave at
\* the flush point after it, whose result avformat_write_header does not
\* look at.  inj = "write_header": avformat_write_header itself fails (the
\* muxer refuses the stream), whether or not the callback was reached.
sf_encoder_init(inj, sampleFormat, half, flush, short, early) ==
    LET reached == EncPassed(inj, "context_params")
        io == IF reached THEN AvioWrite(flush, short)
              ELSE [called |-> FALSE, short |-> FALSE, error |-> pb_error,
                    pending |-> FALSE]
        fail == EncFirstFailing(inj, sampleFormat, early /\ io.error < 0)
    IN
    /\ estate = "created"
    /\ wr.pc = "idle"
    /\ (short => flush /\ nerrs < MaxErrors)
    /\ (early => short)
    /\ (flush => reached)
    /\ (half => fail \in {"resampler_init", "packet_frame_alloc"})
    /\ nerrs' = IF short THEN nerrs + 1 ELSE nerrs
    /\ next_pts' = 0
    /\ pb_error' = io.error
    /\ pending' = io.pending
    /\ shortSeen' = (shortSeen \/ io.short)
    /\ einit_fail' = fail
    /\ eres' = EncInitResources(fail, half)
    /\ hdr' = IF EncPassed(fail, "write_header") THEN hdr + 1 ELSE hdr
    /\ estate' = IF fail = "none" THEN "ready" ELSE "init_failed"
    /\ ret' = [Ret("einit", EncInitResult(fail))
                 EXCEPT !.format = sampleFormat, !.inj = inj,
                        !.hfail = (early /\ io.error < 0)]
    /\ UNCHANGED <<decvars, eq, eflushed, edelay, wr, submitted, observedWF, ncalls,
                   efaults, trl, accepted, handed>>

\* what avcodec_receive_packet answers
EncoderHasPacket == IF eflushed THEN Len(eq) > 0 ELSE Len(eq) > edelay

\* lines 460-468: the result of a write for encode_and_write's return value
WriteResult(r) ==
    IF r < 0
    THEN (IF r = AVERROR_EIO THEN RESULT_ENCODER_ERROR_WRITE_FAILED
                             ELSE RESULT_ENCODER_ERROR_ENCODING_FAILED)
    ELSE RESULT_SUCCESS

\* a write returns: the result and *out_frames_written; short, codecErr: the
\* callback returned a short count, the codec failed, during this call
WriteOutcome(result, out, short, codecErr) ==
    /\ ret' = [NoRet EXCEPT !.op = "write", !.result = result,
                            !.frameCount = wr.frameCount, !.out = out,
                            !.short = short, !.codecErr = codecErr]
    /\ observedWF' = (observedWF \/ result = RESULT_ENCODER_ERROR_WRITE_FAILED)
    /\ accepted' = IF result = RESULT_SUCCESS THEN accepted \cup {wr.pts} ELSE accepted
    /\ wr' = [wr EXCEPT !.pc = "idle"]

\* (a variant that stores the count before it looks at the result)
WriteReturnCountFirst(r, short, codecErr) ==
    WriteOutcome(WriteResult(r), wr.frameCount, short, codecErr)
\* lines 440, 457-468: sf_encoder_write_pcm_frames returns after
\* encode_and_write returned r
WriteReturn(r, short, codecErr) ==
    WriteOutcome(WriteResult(r), IF r < 0 THEN 0 ELSE wr.frameCount, short, codecErr)

\* a null pointer is dereferenced: the process ends there
Crash(fault) ==
    /\ efaults' = efaults \cup {fault}
    /\ estate' = "crashed"
    /\ wr' = [wr EXCEPT !.pc = "idle"]
    /\ ret' = Ret("efree", RESULT_SUCCESS)

\* (a variant of the release that forgets the I/O context and its buffer)
EncReleaseAllButIo(rs) ==
    [r \in EncResources |->
        IF rs[r] = "live" /\ r \notin {"io_buffer", "avio_ctx"} THEN "freed" ELSE rs[r]]
\* lines 479-493: the objects in the order of the calls that release them
EncFreeOrder ==
    <<"codec_ctx", "io_buffer", "avio_ctx", "format_ctx", "packet", "frame", "swr_ctx",
      "encoder">>
\* lines 479-494: every object whose pointer is set is released once
EncReleaseAll(rs) == [r \in EncResources |-> IF rs[r] = "live" THEN "freed" ELSE rs[r]]

\* lines 477-494: the rest of sf_encoder_free after the flush: the trailer
\* (written whether or not a header was), the flush of the staging buffer,
\* the releases
FreeFinish(flush, short) ==
    LET io == AvioWrite(flush, short)
        Reached(r) == eres[r] = "live"
    IN
    /\ (flush => eres["avio_ctx"] = "live")
    /\ IF eres["format_ctx"] # "live"
       THEN /\ Crash("null_format_ctx")
            /\ UNCHANGED <<pb_error, pending, shortSeen, trl, eres>>
       ELSE /\ pb_error' = io.error
            /\ pending' = FALSE
            /\ shortSeen' = (shortSeen \/ io.short)
            /\ trl' = trl + 1
            /\ efaults' = IF hdr = 0 THEN efaults \cup {"trailer_without_header"}
                          ELSE efaults
            /\ eres' = EncReleaseAll(eres)
            /\ estate' = "freed"
            /\ ret' = [Ret("efree", RESULT_SUCCESS)
                         EXCEPT !.order = SelectSeq(EncFreeOrder, Reached)]
            /\ wr' = [wr EXCEPT !.pc = "idle", !.short = (@ \/ io.short)]
    /\ UNCHANGED <<observedWF, accepted>>

\* line 438: the argument check of a write
WriteArgsPositiveOnly(frameCount, nullArg) == nullArg \/ frameCount < 0
WriteArgsInvalid(frameCount, nullArg) == nullArg \/ frameCount <= 0

\* lines 437-457 and 342-343: arguments, frame, timestamp, avcodec_send_frame
sf_encoder_write_pcm_frames(frameCount, nullArg, allocOk, sendOk) ==
    LET nb_samples == ToInt(frameCount) IN
    /\ estate = "ready"
    /\ wr.pc = "idle"
    /\ ncalls < MaxWrites
    /\ ncalls' = ncalls + 1
    /\ IF WriteArgsInvalid(frameCount, nullArg)
       THEN /\ allocOk /\ sendOk
            /\ ret' = [NoRet EXCEPT !.op = "write", !.result = RESULT_ERROR_INVALID_ARGS,
                                    !.frameCount = frameCount, !.nullArg = nullArg]
            /\ UNCHANGED <<wr, next_pts, eq, submitted, nerrs, observedWF>>
       ELSE IF ~allocOk \/ nb_samples <= 0
       THEN \* av_frame_get_buffer refuses the frame
            /\ sendOk
            /\ (allocOk \/ nerrs < MaxErrors)
            /\ nerrs' = IF allocOk THEN nerrs ELSE nerrs + 1
            /\ ret' = [NoRet EXCEPT !.op = "write", !.result = RESULT_ERROR_ALLOCATION_FAILED,
                                    !.frameCount = frameCount, !.out = 0]
            /\ UNCHANGED <<wr, next_pts, eq, submitted, observedWF>>
       ELSE /\ submitted' = Append(submitted, [pts |-> next_pts, req |-> frameCount,
                                               n |-> nb_samples])
            /\ next_pts' = next_pts + nb_samples
            /\ IF sendOk
               THEN /\ eq' = Append(eq, [pts |-> next_pts, n |-> nb_samples])
                    /\ wr' = [pc |-> "recv", op |-> "write", frameCount |-> frameCount,
                              short |-> FALSE, codecErr |-> FALSE, pts |-> next_pts]
                    /\ ret' = [NoRet EXCEPT !.op = "writing", !.frameCount = frameCount,
                                            !.out = 0]
                    /\ UNCHANGED <<nerrs, observedWF>>
               ELSE /\ nerrs < MaxErrors
                    /\ nerrs' = nerrs + 1
                    /\ wr' = [pc |-> "ret", op |-> "write", frameCount |-> frameCount,
                              short |-> FALSE, codecErr |-> TRUE, pts |-> next_pts]
                    /\ ret' = [NoRet EXCEPT !.op = "writing", !.frameCount = frameCount,
                                            !.out = 0]
                    /\ UNCHANGED <<eq, observedWF>>
    /\ UNCHANGED <<decvars, estate, eflushed, edelay, pb_error, pending, shortSeen,
                   eobjs, trl, accepted, handed>>

\* lines 457-468 after a failed avcodec_send_frame
write_send_failed ==
    /\ wr.pc = "ret"
    /\ WriteReturn(AVERROR_EINVAL, wr.short, TRUE)
    /\ UNCHANGED <<decvars, estate, next_pts, eq, eflushed, edelay, pb_error, pending,
                   submitted, shortSeen, ncalls, nerrs, eobjs, trl, handed>>

\* line 346: avcodec_receive_packet is handed encoder->packet, which init
\* never allocated
encode_receive_null_packet ==
    /\ wr.pc = "recv"
    /\ eres["packet"] # "live"
    /\ Crash("null_packet")
    /\ UNCHANGED <<decvars, next_pts, eq, eflushed, edelay, pb_error, pending, submitted,
                   shortSeen, observedWF, ncalls, nerrs, einit_fail, eres, hdr, trl,
                   accepted, handed>>

\* lines 346-348: the codec has no packet; encode_and_write returns 0
encode_receive_none(flush, short) ==
    /\ wr.pc = "recv"
    /\ eres["packet"] = "live"
    /\ ~EncoderHasPacket
    /\ IF wr.op = "write"
       THEN /\ ~flush /\ ~short
            /\ WriteReturn(0, wr.short, wr.codecErr)
            /\ UNCHANGED <<estate, pb_error, pending, shortSeen, nerrs, efaults, eres, trl>>
       ELSE /\ (short => flush /\ nerrs < MaxErrors)
            /\ nerrs' = IF short THEN nerrs + 1 ELSE nerrs
            /\ FreeFinish(flush, short)
    /\ UNCHANGED <<decvars, next_pts, eq, eflushed, edelay, submitted, ncalls,
                   einit_fail, hdr, handed>>

\* lines 349-351: avcodec_receive_packet fails
encode_receive_error(flush, short) ==
    /\ wr.pc = "recv"
    /\ eres["packet"] = "live"
    /\ nerrs < MaxErrors
    /\ IF wr.op = "write"
       THEN /\ ~flush /\ ~short
            /\ nerrs' = nerrs + 1
            /\ WriteReturn(AVERROR_EINVAL, wr.short, TRUE)
            /\ UNCHANGED <<estate, pb_error, pending, shortSeen, efaults, eres, trl>>
       ELSE /\ (short => flush /\ nerrs + 1 < MaxErrors)
            /\ nerrs' = IF short THEN nerrs + 2 ELSE nerrs + 1
            /\ FreeFinish(flush, short)
    /\ UNCHANGED <<decvars, next_pts, eq, eflushed, edelay, submitted, ncalls,
                   einit_fail, hdr, handed>>

\* lines 352-360: a packet is received and handed to the muxer.  muxOk: the
\* muxer accepts it and writes it into the adapter.
encode_write_packet(muxOk, flush, short) ==
    LET io == AvioWrite(flush, short)
        \* av_interleaved_write_frame returns pb->error once it is set
        write_ret == IF ~muxOk THEN AVERROR_EINVAL
                     ELSE IF io.error < 0 THEN io.error ELSE 0
    IN
    /\ wr.pc = "recv"
    /\ eres["packet"] = "live"
    /\ EncoderHasPacket
    /\ (muxOk \/ (~flush /\ ~short))
    /\ (short => flush)
    /\ ((~muxOk \/ short) => nerrs < MaxErrors)
    /\ nerrs' = IF ~muxOk \/ short THEN nerrs + 1 ELSE nerrs
    /\ eq' = Tail(eq)
    /\ handed' = Append(handed, Head(eq))
    /\ IF muxOk
       THEN /\ pb_error' = io.error
            /\ pending' = (io.pending \/ (pending /\ ~flush))
            /\ shortSeen' = (shortSeen \/ io.short)
       ELSE UNCHANGED <<pb_error, pending, shortSeen>>
    /\ IF write_ret < 0
       THEN IF wr.op = "write"
            THEN WriteReturn(write_ret, wr.short \/ (muxOk /\ io.short), wr.codecErr)
            ELSE \* sf_encoder_free ignores the result and goes on to the trailer
                 /\ wr' = [wr EXCEPT !.pc = "trailer",
                                      !.short = (@ \/ (muxOk /\ io.short))]
                 /\ UNCHANGED <<ret, observedWF, accepted>>
       ELSE /\ wr' = [wr EXCEPT !.short = (@ \/ io.short)]
            /\ UNCHANGED <<ret, observedWF, accepted>>
    /\ UNCHANGED <<decvars, estate, next_pts, eflushed, edelay, submitted, ncalls,
                   eobjs, trl>>

\* lines 471-475 and 342-343: sf_encoder_free starts the flush with a NULL
\* frame.  A null codec context is dereferenced by avcodec_send_frame; a
\* context that was never opened refuses the frame.
sf_encoder_free(sendOk) ==
    LET opened == einit_fail # "-" /\ EncPassed(einit_fail, "codec_open")
        sent == sendOk /\ opened
    IN
    /\ estate \in {"created", "init_failed", "ready"}
    /\ wr.pc = "idle"
    /\ (sendOk \/ (opened /\ nerrs < MaxErrors))
    /\ nerrs' = IF sendOk THEN nerrs ELSE nerrs + 1
    /\ IF eres["codec_ctx"] # "live"
       THEN /\ Crash("null_codec_ctx")
            /\ UNCHANGED eflushed
       ELSE /\ eflushed' = (eflushed \/ sent)
            /\ wr' = [pc |-> IF sent THEN "recv" ELSE "trailer", op |-> "free",
                      frameCount |-> 0, short |-> FALSE, codecErr |-> ~sent, pts |-> 0]
            /\ ret' = Ret("efreeing", RESULT_SUCCESS)
            /\ UNCHANGED <<estate, efaults>>
    /\ UNCHANGED <<decvars, next_pts, eq, edelay, pb_error, pending, submitted,
                   shortSeen, observedWF, ncalls, einit_fail, eres, hdr, trl,
                   accepted, handed>>

\* lines 477-494 when encode_and_write returned an error
free_after_error(flush, short) ==
    /\ wr.pc = "trailer"
    /\ (short => flush /\ nerrs < MaxErrors)
    /\ nerrs' = IF short THEN nerrs + 1 ELSE nerrs
    /\ FreeFinish(flush, short)
    /\ UNCHANGED <<decvars, next_pts, eq, eflushed, edelay, submitted, ncalls,
                   einit_fail, hdr, handed>>

EncInit(present) ==
    /\ estate = IF present THEN "created" ELSE "absent"
    /\ next_pts = 0
    /\ eq = <<>>
    /\ eflushed = FALSE
    /\ edelay \in (IF present THEN Delays ELSE {0})
    /\ pb_error = 0
    /\ pending = FALSE
    /\ wr = [pc |-> "idle", op |-> "none", frameCount |-> 0, short |-> FALSE,
             codecErr |-> FALSE, pts |-> 0]
    /\ submitted = <<>>
    /\ shortSeen = FALSE
    /\ observedWF = FALSE
    /\ einit_fail = "-"
    /\ efaults = {}
    /\ eres = [r \in EncResources |-> IF r = "encoder" THEN "live" ELSE "none"]
    /\ hdr = 0
    /\ trl = 0
    /\ accepted = {}
    /\ handed = <<>>

EncNext ==
    \/ /\ estate = "created"
       /\ \E inj \in EncEngineStages, fmt \in SampleFormats,
             half \in BOOLEAN, flush \in BOOLEAN, short \in BOOLEAN, early \in BOOLEAN :
             sf_encoder_init(inj, fmt, half, flush, short, early)
    \/ /\ estate = "ready"
       /\ \E fc \in FrameCounts, nullArg \in BOOLEAN, allocOk \in BOOLEAN,
             sendOk \in BOOLEAN :
             /\ nullArg => fc \in NullArgCounts
             /\ sf_encoder_write_pcm_frames(fc, nullArg, allocOk, sendOk)
    \/ write_send_failed
    \/ encode_receive_null_packet
    \/ \E flush \in BOOLEAN, short \in BOOLEAN : encode_receive_none(flush, short)
    \/ \E flush \in BOOLEAN, short \in BOOLEAN : encode_receive_error(flush, short)
    \/ \E muxOk \in BOOLEAN, flush \in BOOLEAN, short \in BOOLEAN :
          encode_write_packet(muxOk, flush, short)
    \/ \E sendOk \in BOOLEAN : sf_encoder_free(sendOk)
    \/ \E flush \in BOOLEAN, short \in BOOLEAN : free_after_error(flush, short)

\* ---------------------------------------------------------------- the system
\* One instance is exercised at a time: instances share no state.
Init ==
    /\ \E which \in {"decoder", "encoder"} :
          DecInit(which = "decoder") /\ EncInit(which = "encoder")
    /\ ret = NoRet
    /\ ncalls = 0
    /\ nerrs = 0

Next == DecNext \/ EncNext

Spec == Init /\ [][Next]_vars

\* lines 208-280: the steps of a read that is under way and that no failure
\* of the engine cuts short.  The call runs on its caller's thread, so once
\* it has started its next step is always taken.
ReadSteps ==
    \/ read_loop_exit
    \/ read_receive_frame
    \/ read_receive_eof
    \/ read_receive_eagain
    \/ \E sendOk \in BOOLEAN : read_feed_packet(sendOk)
    \/ \E sendOk \in BOOLEAN : read_feed_eof(sendOk)

\* the decoder alone, with a read that has started running to its return
LiveInit ==
    /\ DecInit(TRUE) /\ EncInit(FALSE)
    /\ ret = NoRet
    /\ ncalls = 0
    /\ nerrs = 0
\* (two calls: a read or a seek, and the read that follows it)
LiveNext == DecNext /\ ncalls' <= MaxLiveCalls
SpecLive == LiveInit /\ [][LiveNext]_vars /\ WF_vars(ReadSteps)

\* ------------------------------------------------------- adapters and helpers
\* The functions below keep no state; SpecFn applies them to inputs drawn
\* from bounded sets and records each call in `ret`.
AVERROR_EOF == -541478725
AVSEEK_SIZE == 65536
AV_TIME_BASE == 1000000
\* AV_NOPTS_VALUE is the least int64_t; here it is the least value at hand
AV_NOPTS_VALUE == -2147483647

\* (a variant that passes a zero count through as a zero-byte read)
read_packet_callback_zero_read(bytes_read) == ToInt(bytes_read)
\* lines 78-85: bytes_read is what the caller's callback returned
read_packet_callback(bytes_read) ==
    IF bytes_read = 0 THEN AVERROR_EOF ELSE ToInt(bytes_read)

\* (a variant that forwards the size request as well)
seek_callback_wrapper_forward_all(offset, whence, onSeek) ==
    [result |-> onSeek, called |-> TRUE, offset |-> offset, whence |-> whence]
\* lines 87-94: onSeek is what the caller's callback answers if it is called;
\* the record tells whether it was, and with what
seek_callback_wrapper(offset, whence, onSeek) ==
    IF whence = AVSEEK_SIZE
    THEN [result |-> -1, called |-> FALSE, offset |-> 0, whence |-> 0]
    ELSE [result |-> onSeek, called |-> TRUE, offset |-> offset, whence |-> whence]

\* av_rescale(a, b, c): a * b / c rounded to nearest, halves away from zero
av_rescale(a, b, c) ==
    IF a >= 0 THEN (a * b + c \div 2) \div c
              ELSE -(((-a) * b + c \div 2) \div c)

\* lines 187-198.  d: the decoder as the function sees it: whether the
\* instance and its format context are there, the selected stream index, the
\* stream's duration, time base and sample rate, the container's duration
sf_decoder_get_length_in_pcm_frames(d) ==
    IF d.null \/ d.format_ctx = "null" \/ d.stream_index < 0 THEN -1
    ELSE IF d.duration # AV_NOPTS_VALUE
    THEN av_rescale_q(d.duration, d.time_base, [num |-> 1, den |-> d.sample_rate])
    ELSE IF d.format_duration # AV_NOPTS_VALUE
    THEN av_rescale(d.format_duration, AV_TIME_BASE, d.sample_rate)
    ELSE 0

\* (a variant whose two resampler messages read the same)
sf_result_to_string_shared_message(result) ==
      CASE result = RESULT_SUCCESS -> "Success"
        [] result = RESULT_ERROR_INVALID_ARGS -> "Invalid arguments provided"
        [] result = RESULT_ERROR_ALLOCATION_FAILED -> "Memory allocation failed"
        [] result = RESULT_DECODER_ERROR_OPEN_INPUT -> "Failed to open input stream"
        [] result = RESULT_DECODER_ERROR_FIND_STREAM_INFO -> "Failed to find stream information"
        [] result = RESULT_DECODER_ERROR_NO_AUDIO_STREAM -> "No suitable audio stream found"
        [] result = RESULT_DECODER_ERROR_CODEC_NOT_FOUND -> "Audio codec not found"
        [] result = RESULT_DECODER_ERROR_CODEC_CONTEXT_ALLOC -> "Failed to allocate codec context"
        [] result = RESULT_DECODER_ERROR_CODEC_OPEN_FAILED -> "Failed to open codec"
        [] result = RESULT_DECODER_ERROR_INVALID_TARGET_FORMAT -> "Invalid target sample format"
        [] result = RESULT_DECODER_ERROR_RESAMPLER_INIT_FAILED -> "Failed to initialize audio resampler"
        [] result = RESULT_DECODER_ERROR_PACKET_FRAME_ALLOC -> "Failed to allocate packet or frame"
        [] result = RESULT_DECODER_ERROR_SEEK_FAILED -> "Seek operation failed"
        [] result = RESULT_DECODER_ERROR_DECODING_FAILED -> "An unrecoverable error occurred during the decoding process"
        [] result = RESULT_ENCODER_ERROR_FORMAT_NOT_FOUND -> "Output format not found"
        [] result = RESULT_ENCODER_ERROR_CODEC_NOT_FOUND -> "Audio codec for the format not found or not enabled"
        [] result = RESULT_ENCODER_ERROR_STREAM_ALLOC -> "Failed to allocate new audio stream"
        [] result = RESULT_ENCODER_ERROR_CODEC_CONTEXT_ALLOC -> "Failed to allocate encoder codec context"
        [] result = RESULT_ENCODER_ERROR_CODEC_OPEN_FAILED -> "Failed to open encoder codec"
        [] result = RESULT_ENCODER_ERROR_CONTEXT_PARAMS -> "Failed to copy codec parameters to stream"
        [] result = RESULT_ENCODER_ERROR_WRITE_HEADER -> "Failed to write output file header"
        [] result = RESULT_ENCODER_ERROR_INVALID_INPUT_FORMAT -> "Invalid input sample format"
        [] result = RESULT_ENCODER_ERROR_RESAMPLER_INIT_FAILED -> "Failed to initialize audio resampler"
        [] result = RESULT_ENCODER_ERROR_PACKET_FRAME_ALLOC -> "Failed to allocate packet or frame for encoding"
        [] result = RESULT_ENCODER_ERROR_ENCODING_FAILED -> "An unrecoverable error occurred during the encoding process"
        [] result = RESULT_ENCODER_ERROR_WRITE_FAILED -> "An I/O error occurred while writing the encoded data"
        [] OTHER -> "Unknown error"
\* lines 499-529
sf_result_to_string(result) ==
      CASE result = RESULT_SUCCESS -> "Success"
        [] result = RESULT_ERROR_INVALID_ARGS -> "Invalid arguments provided"
        [] result = RESULT_ERROR_ALLOCATION_FAILED -> "Memory allocation failed"
        [] result = RESULT_DECODER_ERROR_OPEN_INPUT -> "Failed to open input stream"
        [] result = RESULT_DECODER_ERROR_FIND_STREAM_INFO -> "Failed to find stream information"
        [] result = RESULT_DECODER_ERROR_NO_AUDIO_STREAM -> "No suitable audio stream found"
        [] result = RESULT_DECODER_ERROR_CODEC_NOT_FOUND -> "Audio codec not found"
        [] result = RESULT_DECODER_ERROR_CODEC_CONTEXT_ALLOC -> "Failed to allocate codec context"
        [] result = RESULT_DECODER_ERROR_CODEC_OPEN_FAILED -> "Failed to open codec"
        [] result = RESULT_DECODER_ERROR_INVALID_TARGET_FORMAT -> "Invalid target sample format"
        [] result = RESULT_DECODER_ERROR_RESAMPLER_INIT_FAILED -> "Failed to initialize audio resampler"
        [] result = RESULT_DECODER_ERROR_PACKET_FRAME_ALLOC -> "Failed to allocate packet or frame"
        [] result = RESULT_DECODER_ERROR_SEEK_FAILED -> "Seek operation failed"
        [] result = RESULT_DECODER_ERROR_DECODING_FAILED -> "An unrecoverable error occurred during the decoding process"
        [] result = RESULT_ENCODER_ERROR_FORMAT_NOT_FOUND -> "Output format not found"
        [] result = RESULT_ENCODER_ERROR_CODEC_NOT_FOUND -> "Audio codec for the format not found or not enabled"
        [] result = RESULT_ENCODER_ERROR_STREAM_ALLOC -> "Failed to allocate new audio stream"
        [] result = RESULT_ENCODER_ERROR_CODEC_CONTEXT_ALLOC -> "Failed to allocate encoder codec context"
        [] result = RESULT_ENCODER_ERROR_CODEC_OPEN_FAILED -> "Failed to open encoder codec"
        [] result = RESULT_ENCODER_ERROR_CONTEXT_PARAMS -> "Failed to copy codec parameters to stream"
        [] result = RESULT_ENCODER_ERROR_WRITE_HEADER -> "Failed to write output file header"
        [] result = RESULT_ENCODER_ERROR_INVALID_INPUT_FORMAT -> "Invalid input sample format"
        [] result = RESULT_ENCODER_ERROR_RESAMPLER_INIT_FAILED -> "Failed to initialize audio resampler for encoding"
        [] result = RESULT_ENCODER_ERROR_PACKET_FRAME_ALLOC -> "Failed to allocate packet or frame for encoding"
        [] result = RESULT_ENCODER_ERROR_ENCODING_FAILED -> "An unrecoverable error occurred during the encoding process"
        [] result = RESULT_ENCODER_ERROR_WRITE_FAILED -> "An I/O error occurred while writing the encoded data"
        [] OTHER -> "Unknown error"

\* the SF_Result values of soundflow-ffmpeg.h lines 30-64
ResultCodes ==
    {RESULT_SUCCESS,
     RESULT_ERROR_INVALID_ARGS,
     RESULT_ERROR_ALLOCATION_FAILED,
     RESULT_DECODER_ERROR_OPEN_INPUT,
     RESULT_DECODER_ERROR_FIND_STREAM_INFO,
     RESULT_DECODER_ERROR_NO_AUDIO_STREAM,
     RESULT_DECODER_ERROR_CODEC_NOT_FOUND,
     RESULT_DECODER_ERROR_CODEC_CONTEXT_ALLOC,
     RESULT_DECODER_ERROR_CODEC_OPEN_FAILED,
     RESULT_DECODER_ERROR_INVALID_TARGET_FORMAT,
     RESULT_DECODER_ERROR_RESAMPLER_INIT_FAILED,
     RESULT_DECODER_ERROR_PACKET_FRAME_ALLOC,
     RESULT_DECODER_ERROR_SEEK_FAILED,
     RESULT_DECODER_ERROR_DECODING_FAILED,
     RESULT_ENCODER_ERROR_FORMAT_NOT_FOUND,
     RESULT_ENCODER_ERROR_CODEC_NOT_FOUND,
     RESULT_ENCODER_ERROR_STREAM_ALLOC,
     RESULT_ENCODER_ERROR_CODEC_CONTEXT_ALLOC,
     RESULT_ENCODER_ERROR_CODEC_OPEN_FAILED,
     RESULT_ENCODER_ERROR_CONTEXT_PARAMS,
     RESULT_ENCODER_ERROR_WRITE_HEADER,
     RESULT_ENCODER_ERROR_INVALID_INPUT_FORMAT,
     RESULT_ENCODER_ERROR_RESAMPLER_INIT_FAILED,
     RESULT_ENCODER_ERROR_PACKET_FRAME_ALLOC,
     RESULT_ENCODER_ERROR_ENCODING_FAILED,
     RESULT_ENCODER_ERROR_WRITE_FAILED}

\* the inputs tried
ByteCounts == 0..(Pow2(IntBits) + 1)
BufSizes == 1..IntMax
Whences == {0, 1, 2, AVSEEK_SIZE}
Offsets == (-1)..2
SeekAnswers == (-1)..2
\* every value from two below the least SF_Result to one above the greatest
ResultInputs == (RESULT_ENCODER_ERROR_WRITE_FAILED - 2)..(RESULT_SUCCESS + 1)
LengthInputs ==
    [null : BOOLEAN, format_ctx : {"null", "set"}, stream_index : {-1, 0, 1},
     duration : {AV_NOPTS_VALUE, 0, 3, 1000}, time_base : {[num |-> 1, den |-> 1000]},
     sample_rate : {1000, 2000},
     format_duration : {AV_NOPTS_VALUE, 0, 1000, 2000}]

call_read_packet_callback(bytes_read, buf_size) ==
    /\ ret' = [op |-> "read_packet_callback", bytes_read |-> bytes_read,
               buf_size |-> buf_size, result |-> read_packet_callback(bytes_read)]
    /\ UNCHANGED <<decvars, encvars, ncalls, nerrs>>

\* lines 96-104 applied to a callback result and the size it was given
call_write_packet_callback(bytes_written, buf_size) ==
    /\ ret' = [op |-> "write_packet_callback", bytes_written |-> bytes_written,
               buf_size |-> buf_size,
               result |-> write_packet_callback(bytes_written, buf_size)]
    /\ UNCHANGED <<decvars, encvars, ncalls, nerrs>>

call_seek_callback_wrapper(offset, whence, onSeek) ==
    /\ ret' = [op |-> "seek_callback_wrapper", offset |-> offset, whence |-> whence,
               onSeek |-> onSeek, did |-> seek_callback_wrapper(offset, whence, onSeek)]
    /\ UNCHANGED <<decvars, encvars, ncalls, nerrs>>

call_get_length(d) ==
    /\ ret' = [op |-> "get_length", d |-> d,
               result |-> sf_decoder_get_length_in_pcm_frames(d)]
    /\ UNCHANGED <<decvars, encvars, ncalls, nerrs>>

\* lines 61-74 applied to a format the engine reports
call_from_ffmpeg_sample_format(format) ==
    /\ ret' = [op |-> "from_ffmpeg_sample_format", format |-> format,
               result |-> from_ffmpeg_sample_format(format)]
    /\ UNCHANGED <<decvars, encvars, ncalls, nerrs>>

\* lines 49-59 and then lines 61-74: a format sent to the engine and back
call_format_round_trip(format) ==
    /\ ret' = [op |-> "format_round_trip", format |-> format,
               engine |-> to_ffmpeg_sample_format(format),
               result |-> from_ffmpeg_sample_format(to_ffmpeg_sample_format(format))]
    /\ UNCHANGED <<decvars, encvars, ncalls, nerrs>>

\* lines 499-529 applied to two values
call_sf_result_to_string(a, b) ==
    /\ ret' = [op |-> "sf_result_to_string", a |-> a, b |-> b,
               sa |-> sf_result_to_string(a), sb |-> sf_result_to_string(b)]
    /\ UNCHANGED <<decvars, encvars, ncalls, nerrs>>

FnInit ==
    /\ DecInit(FALSE) /\ EncInit(FALSE)
    /\ ret = NoRet
    /\ ncalls = 0
    /\ nerrs = 0

FnNext ==
    \/ \E b \in ByteCounts, s \in BufSizes : call_read_packet_callback(b, s)
    \/ \E b \in ByteCounts, s \in BufSizes : call_write_packet_callback(b, s)
    \/ \E o \in Offsets, w \in Whences, a \in SeekAnswers : call_seek_callback_wrapper(o, w, a)
    \/ \E d \in LengthInputs : call_get_length(d)
    \/ \E f \in EngineFormats : call_from_ffmpeg_sample_format(f)
    \/ \E f \in SampleFormats : call_format_round_trip(f)
    \/ \E a, b \in ResultInputs : call_sf_result_to_string(a, b)

SpecFn == FnInit /\ [][FnNext]_vars


\* ================================================================== claims
TotalSamples == FrameLen * Cardinality(AudioPackets(1))
InIntRange(x) == ToInt(x) = x
ValidRead == ret.op = "read" /\ ret.result # RESULT_ERROR_INVALID_ARGS

\* C1: a read that asks for more frames than remain (no seek, no engine
\* error so far) returns success with exactly the remaining frames; later
\* reads, for which nothing remains, return success with 0 frames.
\* (Stated for the frame counts whose low bits, taken as an int, are not
\* negative: the engine is never handed a negative buffer size.)
C1_EndOfStreamExactCount ==
    (ValidRead /\ ~seeked /\ nerrs = 0 /\ ret.frameCount > ret.rem
               /\ ToInt(ret.frameCount) >= 0)
        => (ret.result = RESULT_SUCCESS /\ ret.out = ret.rem)

\* C2: after a successful seek, reads deliver the stream from the sought
\* position on, as an undisturbed read arriving there does: no packet of the
\* selected stream is skipped.
C2_SeekReproducesFreshRead ==
    (ValidRead /\ seeked /\ nerrs = 0 /\ ret.start > 0 /\ InIntRange(ret.frameCount))
        => /\ ret.result = RESULT_SUCCESS
           /\ Contiguous(ret.outbuf, ret.start)
           /\ ret.out = Min(ret.frameCount, TotalSamples - ret.start + 1)

\* C3 as stated: a read of zero frames succeeds with zero frames and no work.
C3_DegenerateReadSucceeds ==
    (ret.op = "read" /\ ret.frameCount = 0 /\ ~ret.nullArg)
        => (ret.result = RESULT_SUCCESS /\ ret.out = 0 /\ ~ret.touched)

\* C3 as amended: a read of zero frames is rejected as invalid arguments,
\* *out_frames_read is left unwritten, and no container read or codec call
\* is made.
C3_ZeroCountRejected ==
    (ret.op = "read" /\ ret.frameCount = 0)
        => (ret.result = RESULT_ERROR_INVALID_ARGS /\ ret.out = Unwritten /\ ~ret.touched)
C3_Witness ==
    /\ ret.op = "read" /\ ret.frameCount = 0 /\ ~ret.nullArg
    /\ ret.result = RESULT_ERROR_INVALID_ARGS
    /\ Remaining > 0

\* C4: a read or a write with frameCount <= 0 or a null argument returns
\* invalid-arguments, calls no callback and no engine function, and changes
\* nothing of the decoder's or the encoder's state.
C4_RejectedState ==
    (ret.op \in {"read", "write"} /\ (ret.frameCount <= 0 \/ ret.nullArg))
        => (ret.result = RESULT_ERROR_INVALID_ARGS /\ ret.out = Unwritten
            /\ ~ret.touched /\ ~ret.short)
C4_RejectedStep ==
    (ncalls' = ncalls + 1 /\ ret'.result = RESULT_ERROR_INVALID_ARGS)
        => UNCHANGED <<decvars, encvars, nerrs>>
C4_InvalidCountsRejected == [](C4_RejectedState) /\ [][C4_RejectedStep]_vars
C4_Witness ==
    /\ ret.op = "write" /\ ret.frameCount < 0
    /\ ret.result = RESULT_ERROR_INVALID_ARGS
    /\ next_pts > 0

\* C5: a write during which the callback returned a short count returns
\* write-failed; a write during which the codec failed returns
\* encoding-failed.
C5_ShortWriteIsWriteFailed ==
    /\ (ret.op = "write" /\ ret.short) => ret.result = RESULT_ENCODER_ERROR_WRITE_FAILED
    /\ (ret.op = "write" /\ ret.codecErr)
          => ret.result = RESULT_ENCODER_ERROR_ENCODING_FAILED
C5_Witness ==
    ret.op = "write" /\ ret.short /\ ret.result = RESULT_ENCODER_ERROR_WRITE_FAILED

\* C6: once the encoder is freed, a short write that first happened during
\* sf_encoder_free (sentinel drain, trailer, staging-buffer flush) has been
\* reported to the caller as write-failed.
C6_ShortWriteAtFreeReported ==
    (estate = "freed" /\ wr.op = "free" /\ wr.short) => observedWF

\* C7: while every accepted write succeeds, the k-th submitted frame is
\* stamped with the sum of the frame counts of the writes before it and
\* next_pts is the sum of all of them.
RECURSIVE SumReq(_, _)
SumReq(seq, k) == IF k = 0 THEN 0 ELSE SumReq(seq, k - 1) + seq[k].req
C7_TimestampsTile ==
    (estate = "ready" /\ wr.pc = "idle" /\ nerrs = 0 /\ pb_error = 0)
        => /\ \A k \in 1..Len(submitted) : submitted[k].pts = SumReq(submitted, k - 1)
           /\ next_pts = SumReq(submitted, Len(submitted))

\* C8: a write returns success with the whole count, or an error with 0 (or
\* with the count unwritten, for invalid arguments): never a partial count.
C8_WriteAllOrNothing ==
    ret.op = "write"
        => \/ ret.result = RESULT_SUCCESS /\ ret.out = ret.frameCount
           \/ ret.result # RESULT_SUCCESS /\ ret.out = 0
           \/ ret.result = RESULT_ERROR_INVALID_ARGS /\ ret.out = Unwritten
C8_Witness ==
    /\ ret.op = "write" /\ ret.result = RESULT_ENCODER_ERROR_WRITE_FAILED
    /\ ret.out = 0 /\ ret.frameCount > 1

\* C9: a read that returns decoding-failed reports in *out_frames_read the
\* frames it had written to the caller's buffer.
C9_FailedReadReportsProgress ==
    (ret.op = "read" /\ ret.result = RESULT_DECODER_ERROR_DECODING_FAILED)
        => ret.out = Len(ret.outbuf)
C9_Witness ==
    /\ ret.op = "read" /\ ret.result = RESULT_DECODER_ERROR_DECODING_FAILED
    /\ ret.out > 0 /\ ret.out < ret.frameCount

\* C10: after a failed init, free commits no memory fault and leaves no
\* resource of the decoder allocated.
C10_FreeAfterFailedInitClean ==
    (dstate = "freed" /\ init_fail \notin {"-", "none"})
        => (faults = {} /\ \A r \in Resources : res[r] # "live")

\* C11: after an encoder init that failed at any stage, or was never made,
\* free dereferences no null pointer in its flush and trailer steps and
\* leaves no resource of the encoder allocated.
C11_EncoderFreeAfterFailedInitSafe ==
    (estate \in {"freed", "crashed"} /\ einit_fail # "none")
        => (efaults = {} /\ \A r \in EncResources : eres[r] # "live")

\* C12: the header is written at most once and before any frame is
\* submitted; the trailer is written at most once, only at free, never for an
\* encoder whose header was not written; a freed encoder whose init succeeded
\* has written exactly one header and one trailer.
C12_HeaderTrailerProtocol ==
    /\ hdr <= 1 /\ trl <= 1
    /\ (submitted # <<>> => hdr = 1)
    /\ (trl = 1 => estate = "freed")
    /\ (trl = 1 => hdr = 1)
    /\ ((estate = "freed" /\ einit_fail = "none") => (hdr = 1 /\ trl = 1))

\* C13: when free has written the trailer of a successfully initialised
\* encoder, no frame of a write that returned success is still inside the
\* codec: every packet for it has been handed to the muxer.
C13_CompleteFlush ==
    (estate = "freed" /\ einit_fail = "none")
        => \A i \in 1..Len(eq) : eq[i].pts \notin accepted

\* C14: init with a target format outside {U8, S16, S24, S32, F32} on an
\* input the engine opens returns invalid-target-format, and the free that
\* follows commits no fault and leaves no resource allocated.
C14_InvalidTargetDiagnosed ==
    /\ (/\ ret.op = "init"
        /\ ret.format \notin {SAMPLE_FORMAT_U8, SAMPLE_FORMAT_S16, SAMPLE_FORMAT_S24,
                              SAMPLE_FORMAT_S32, SAMPLE_FORMAT_F32}
        /\ Passed(init_fail, "codec_open"))
          => (/\ ret.result = RESULT_DECODER_ERROR_INVALID_TARGET_FORMAT
              /\ init_fail = "invalid_target_format"
              /\ \A r \in {"format_ctx", "io_buffer", "avio_ctx", "codec_ctx"} :
                    res[r] = "live")
    /\ (dstate = "freed" /\ init_fail = "invalid_target_format")
          => (faults = {} /\ \A r \in Resources : res[r] # "live")
C14_Witness ==
    /\ dstate = "freed" /\ init_fail = "invalid_target_format"
    /\ \A r \in {"format_ctx", "io_buffer", "avio_ctx", "codec_ctx"} : res[r] = "freed"

\* C15: on an initialised decoder the length is the stream's duration
\* rescaled to frames when it declares one, else the container's duration
\* rescaled from 1/AV_TIME_BASE seconds to frames when that is known, else 0,
\* and it is never negative.
ExpectedLength(d) ==
    IF d.duration # AV_NOPTS_VALUE
    THEN av_rescale(d.duration * d.time_base.num, d.sample_rate, d.time_base.den)
    ELSE IF d.format_duration # AV_NOPTS_VALUE
    THEN av_rescale(d.format_duration, d.sample_rate, AV_TIME_BASE)
    ELSE 0
C15_LengthNeverFails ==
    (/\ ret.op = "get_length"
     /\ ~ret.d.null /\ ret.d.format_ctx = "set" /\ ret.d.stream_index >= 0)
        => (ret.result = ExpectedLength(ret.d) /\ ret.result >= 0)

\* C16: after an encoder lifetime without engine or callback failure, the
\* packets handed to the muxer hold, in order and without gap, as many frames
\* as the successful writes were asked to encode; a decoder reading that
\* container to its end returns the frames of each packet in turn.
RECURSIVE SumN(_, _)
SumN(seq, k) == IF k = 0 THEN 0 ELSE SumN(seq, k - 1) + seq[k].n
RoundTripFrames == SumN(handed, Len(handed))
C16_RoundTripFrameCount ==
    (estate = "freed" /\ einit_fail = "none" /\ nerrs = 0 /\ efaults = {})
        => /\ RoundTripFrames = SumReq(submitted, Len(submitted))
           /\ \A k \in 1..Len(handed) : handed[k].pts = SumN(handed, k - 1)

\* C17: the read adapter answers a callback result of 0 with the engine's
\* end-of-stream code, and a result k with 0 < k <= buf_size with k.
C17_ReadAdapter ==
    ret.op = "read_packet_callback"
        => /\ (ret.bytes_read = 0 => ret.result = AVERROR_EOF)
           /\ (ret.bytes_read > 0 /\ ret.bytes_read <= ret.buf_size)
                 => ret.result = ret.bytes_read
C17_Witness ==
    ret.op = "read_packet_callback" /\ ret.bytes_read = 0 /\ ret.result = AVERROR_EOF

\* C18: the seek adapter answers the size request with -1 without calling the
\* caller's callback, and forwards every other whence with its offset
\* unchanged, returning the callback's answer unchanged.
C18_SeekAdapter ==
    ret.op = "seek_callback_wrapper"
        => IF ret.whence = AVSEEK_SIZE
           THEN ret.did.result = -1 /\ ~ret.did.called
           ELSE /\ ret.did.called
                /\ ret.did.offset = ret.offset /\ ret.did.whence = ret.whence
                /\ ret.did.result = ret.onSeek
C18_Witness ==
    /\ ret.op = "seek_callback_wrapper" /\ ret.whence = AVSEEK_SIZE
    /\ ret.onSeek >= 0 /\ ret.did.result = -1 /\ ~ret.did.called

\* C19: after seeks that all failed, a read without engine error returns
\* success and delivers the frames that follow the last delivered one, up to
\* the end of the stream.
C19_FailedSeekLeavesUsable ==
    (/\ ValidRead /\ seeked /\ ~seekok /\ ~ret.err
     /\ ret.start > 0 /\ InIntRange(ret.frameCount))
        => /\ ret.result = RESULT_SUCCESS
           /\ Contiguous(ret.outbuf, ret.start)
           /\ ret.out = Min(ret.frameCount, TotalSamples - ret.start + 1)

\* C20: U8, S16, S32, F32 map to the engine's formats of the same kind, S24
\* to the engine's signed 32-bit format (4 bytes per sample in the decoder),
\* every other value to 'none', which decoder init answers with
\* invalid-target-format and encoder init with invalid-input-format.
ExpectedEngineFormat(format) ==
    IF format = SAMPLE_FORMAT_U8 THEN AV_SAMPLE_FMT_U8
    ELSE IF format = SAMPLE_FORMAT_S16 THEN AV_SAMPLE_FMT_S16
    ELSE IF format \in {SAMPLE_FORMAT_S24, SAMPLE_FORMAT_S32} THEN AV_SAMPLE_FMT_S32
    ELSE IF format = SAMPLE_FORMAT_F32 THEN AV_SAMPLE_FMT_FLT
    ELSE AV_SAMPLE_FMT_NONE
C20_ForwardFormatMapping ==
    /\ ret.op \in {"init", "einit"}
          => to_ffmpeg_sample_format(ret.format) = ExpectedEngineFormat(ret.format)
    /\ (ret.op = "init" /\ ret.result = RESULT_SUCCESS /\ ret.format = SAMPLE_FORMAT_S24)
          => ret.bps = 4
    /\ (/\ ret.op = "init" /\ Passed(init_fail, "codec_open")
        /\ ExpectedEngineFormat(ret.format) = AV_SAMPLE_FMT_NONE)
          => ret.result = RESULT_DECODER_ERROR_INVALID_TARGET_FORMAT
    /\ (/\ ret.op = "einit" /\ EncPassed(einit_fail, "write_header")
        /\ ExpectedEngineFormat(ret.format) = AV_SAMPLE_FMT_NONE)
          => ret.result = RESULT_ENCODER_ERROR_INVALID_INPUT_FORMAT
C20_Witness ==
    /\ ret.op = "init" /\ ret.format = SAMPLE_FORMAT_S24
    /\ ret.result = RESULT_SUCCESS /\ ret.bps = 4

\* C21: the reverse mapping gives a planar and an interleaved engine format
\* of the same sample type the same PCM format (U8, S16, S32, F32) and gives
\* every other engine format (double, 64-bit integer, none, any value not
\* listed) SAMPLE_FORMAT_UNKNOWN; a format mapped forward and then back is
\* itself for U8, S16, S32 and F32, is S32 for S24, and is UNKNOWN for a
\* value that is no PCM format.
Planar(format) ==
    CASE format = AV_SAMPLE_FMT_U8 -> AV_SAMPLE_FMT_U8P
      [] format = AV_SAMPLE_FMT_S16 -> AV_SAMPLE_FMT_S16P
      [] format = AV_SAMPLE_FMT_S32 -> AV_SAMPLE_FMT_S32P
      [] format = AV_SAMPLE_FMT_FLT -> AV_SAMPLE_FMT_FLTP
      [] format = AV_SAMPLE_FMT_DBL -> AV_SAMPLE_FMT_DBLP
      [] format = AV_SAMPLE_FMT_S64 -> AV_SAMPLE_FMT_S64P
      [] OTHER -> format
ExpectedPcmFormat ==
    [f \in EngineFormats |->
        IF f \in {AV_SAMPLE_FMT_U8, AV_SAMPLE_FMT_U8P} THEN SAMPLE_FORMAT_U8
        ELSE IF f \in {AV_SAMPLE_FMT_S16, AV_SAMPLE_FMT_S16P} THEN SAMPLE_FORMAT_S16
        ELSE IF f \in {AV_SAMPLE_FMT_S32, AV_SAMPLE_FMT_S32P} THEN SAMPLE_FORMAT_S32
        ELSE IF f \in {AV_SAMPLE_FMT_FLT, AV_SAMPLE_FMT_FLTP} THEN SAMPLE_FORMAT_F32
        ELSE SAMPLE_FORMAT_UNKNOWN]
C21_ReverseFormatMapping ==
    /\ ret.op = "from_ffmpeg_sample_format" =>
          /\ ret.result = ExpectedPcmFormat[ret.format]
          /\ ret.result = from_ffmpeg_sample_format(Planar(ret.format))
          /\ ret.format \in {AV_SAMPLE_FMT_NONE, AV_SAMPLE_FMT_DBL, AV_SAMPLE_FMT_DBLP,
                              AV_SAMPLE_FMT_S64, AV_SAMPLE_FMT_S64P}
                => ret.result = SAMPLE_FORMAT_UNKNOWN
    /\ ret.op = "format_round_trip" =>
          ret.result =
             IF ret.format \in {SAMPLE_FORMAT_U8, SAMPLE_FORMAT_S16,
                                SAMPLE_FORMAT_S32, SAMPLE_FORMAT_F32}
             THEN ret.format
             ELSE IF ret.format = SAMPLE_FORMAT_S24 THEN SAMPLE_FORMAT_S32
             ELSE SAMPLE_FORMAT_UNKNOWN
C21_Witness ==
    /\ ret.op = "from_ffmpeg_sample_format"
    /\ ret.format = AV_SAMPLE_FMT_S16P
    /\ ret.result = SAMPLE_FORMAT_S16

\* C22: sf_result_to_string gives each of the 26 SF_Result values a string
\* other than "Unknown error", gives two different SF_Result values two
\* different strings, gives the same value the same string, and gives every
\* value that is no SF_Result "Unknown error".
C22_ResultStrings ==
    /\ Cardinality(ResultCodes) = 26
    /\ ret.op = "sf_result_to_string" =>
          /\ ret.a \in ResultCodes => ret.sa # "Unknown error"
          /\ ret.a \notin ResultCodes => ret.sa = "Unknown error"
          /\ ret.a = ret.b => ret.sa = ret.sb
          /\ (ret.a \in ResultCodes /\ ret.b \in ResultCodes /\ ret.a # ret.b)
                => ret.sa # ret.sb
C22_Witness ==
    /\ ret.op = "sf_result_to_string"
    /\ ret.a = RESULT_DECODER_ERROR_RESAMPLER_INIT_FAILED
    /\ ret.b = RESULT_ENCODER_ERROR_RESAMPLER_INIT_FAILED
    /\ ret.sa # ret.sb

\* C23: sf_decoder_init runs open-input, probe, stream selection, codec
\* lookup, codec-context allocation, codec open, target-format validation,
\* resampler init and packet/frame allocation in this order and returns the
\* code of the first of them that fails; the nine codes differ from each
\* other and from success, and it returns success only if none of them (and
\* none of the allocations before open-input) fails.
DecoderStageCodes ==
    << <<"open_input", RESULT_DECODER_ERROR_OPEN_INPUT>>,
       <<"find_stream_info", RESULT_DECODER_ERROR_FIND_STREAM_INFO>>,
       <<"no_audio_stream", RESULT_DECODER_ERROR_NO_AUDIO_STREAM>>,
       <<"codec_not_found", RESULT_DECODER_ERROR_CODEC_NOT_FOUND>>,
       <<"codec_ctx_alloc", RESULT_DECODER_ERROR_CODEC_CONTEXT_ALLOC>>,
       <<"codec_open", RESULT_DECODER_ERROR_CODEC_OPEN_FAILED>>,
       <<"invalid_target_format", RESULT_DECODER_ERROR_INVALID_TARGET_FORMAT>>,
       <<"resampler_init", RESULT_DECODER_ERROR_RESAMPLER_INIT_FAILED>>,
       <<"packet_frame_alloc", RESULT_DECODER_ERROR_PACKET_FRAME_ALLOC>> >>
\* the stages that fail in the call `ret` reports: the one the engine fails
\* at and, for a target format that is no PCM format, the validation
DecoderFailing ==
    {ret.inj} \cup (IF ret.format \in SAMPLE_FORMAT_U8..SAMPLE_FORMAT_F32
                    THEN {} ELSE {"invalid_target_format"})
DecoderFirstFailing ==
    {i \in 1..Len(DecoderStageCodes) :
        /\ DecoderStageCodes[i][1] \in DecoderFailing
        /\ \A j \in 1..(i - 1) : DecoderStageCodes[j][1] \notin DecoderFailing}
DecoderAllocStages == {"format_ctx_alloc", "io_buffer_alloc", "avio_alloc"}
C23_DecoderInitFirstFailure ==
    /\ Cardinality({DecoderStageCodes[i][2] : i \in 1..Len(DecoderStageCodes)}
                    \cup {RESULT_SUCCESS}) = Len(DecoderStageCodes) + 1
    /\ (ret.op = "init" /\ ret.inj \notin DecoderAllocStages) =>
          /\ \A i \in DecoderFirstFailing : ret.result = DecoderStageCodes[i][2]
          /\ DecoderFirstFailing = {} => ret.result = RESULT_SUCCESS
    /\ (ret.op = "init" /\ ret.result = RESULT_SUCCESS) =>
          /\ DecoderFailing = {"none"}
          /\ dstate = "ready"
C23_Witness ==
    /\ ret.op = "init"
    /\ ret.inj = "resampler_init"
    /\ ret.format = SAMPLE_FORMAT_UNKNOWN
    /\ ret.result = RESULT_DECODER_ERROR_INVALID_TARGET_FORMAT

\* C24: sf_encoder_init runs format lookup, codec lookup, stream allocation,
\* codec-context allocation, codec open, parameter copy, header write,
\* input-format validation, resampler init and packet/frame allocation in
\* this order and returns the code of the first of them that fails; the ten
\* codes differ from each other and from success; a failing header write
\* gives WRITE_HEADER whatever the input format is, and INVALID_INPUT_FORMAT
\* is returned only when the header has been written into the I/O adapter.
\* (Creating the output context is taken with the format lookup and the
\* codec's missing sample-format list with the codec lookup: they return the
\* codes of these stages.)
EncoderStageCodes ==
    << <<"format_not_found", RESULT_ENCODER_ERROR_FORMAT_NOT_FOUND>>,
       <<"codec_not_found", RESULT_ENCODER_ERROR_CODEC_NOT_FOUND>>,
       <<"stream_alloc", RESULT_ENCODER_ERROR_STREAM_ALLOC>>,
       <<"codec_ctx_alloc", RESULT_ENCODER_ERROR_CODEC_CONTEXT_ALLOC>>,
       <<"codec_open", RESULT_ENCODER_ERROR_CODEC_OPEN_FAILED>>,
       <<"context_params", RESULT_ENCODER_ERROR_CONTEXT_PARAMS>>,
       <<"write_header", RESULT_ENCODER_ERROR_WRITE_HEADER>>,
       <<"invalid_input_format", RESULT_ENCODER_ERROR_INVALID_INPUT_FORMAT>>,
       <<"resampler_init", RESULT_ENCODER_ERROR_RESAMPLER_INIT_FAILED>>,
       <<"packet_frame_alloc", RESULT_ENCODER_ERROR_PACKET_FRAME_ALLOC>> >>
EncoderFailing ==
    {ret.inj}
    \cup (IF ret.hfail THEN {"write_header"} ELSE {})
    \cup (IF ret.format \in SAMPLE_FORMAT_U8..SAMPLE_FORMAT_F32
          THEN {} ELSE {"invalid_input_format"})
EncoderFirstFailing ==
    {i \in 1..Len(EncoderStageCodes) :
        /\ EncoderStageCodes[i][1] \in EncoderFailing
        /\ \A j \in 1..(i - 1) : EncoderStageCodes[j][1] \notin EncoderFailing}
C24_EncoderInitFirstFailure ==
    /\ Cardinality({EncoderStageCodes[i][2] : i \in 1..Len(EncoderStageCodes)}
                    \cup {RESULT_SUCCESS}) = Len(EncoderStageCodes) + 1
    /\ (ret.op = "einit" /\ ret.inj \notin {"output_ctx_alloc", "no_sample_fmts"}) =>
          /\ \A i \in EncoderFirstFailing : ret.result = EncoderStageCodes[i][2]
          /\ EncoderFirstFailing = {} => ret.result = RESULT_SUCCESS
    /\ (ret.op = "einit" /\ ret.inj = "output_ctx_alloc") =>
          ret.result = RESULT_ENCODER_ERROR_FORMAT_NOT_FOUND
    /\ (ret.op = "einit" /\ ret.inj = "no_sample_fmts") =>
          ret.result = RESULT_ENCODER_ERROR_CODEC_NOT_FOUND
    /\ (ret.op = "einit" /\ ret.hfail) =>
          ret.result = RESULT_ENCODER_ERROR_WRITE_HEADER /\ estate = "init_failed"
    /\ (ret.op = "einit" /\ ret.result = RESULT_ENCODER_ERROR_INVALID_INPUT_FORMAT) =>
          /\ hdr = 1
          /\ eres["avio_ctx"] = "live"
          /\ ~ret.hfail
    /\ (ret.op = "einit" /\ ret.result = RESULT_SUCCESS) => EncoderFailing = {"none"}
C24_Witness ==
    /\ ret.op = "einit"
    /\ ret.result = RESULT_ENCODER_ERROR_INVALID_INPUT_FORMAT
    /\ ret.inj = "packet_frame_alloc"
    /\ hdr = 1

\* avformat_write_header refused the stream without reaching the callback,
\* for an input format that has no engine counterpart
HeaderRefusedByEngine ==
    /\ ret.op = "einit" /\ ret.result = RESULT_ENCODER_ERROR_WRITE_HEADER
    /\ ret.inj = "write_header" /\ ~ret.hfail
    /\ ~shortSeen /\ pb_error = 0 /\ hdr = 0
    /\ ret.format = SAMPLE_FORMAT_UNKNOWN

\* C25: over the read calls on one decoder (no seek in between) the
\* end-of-input sentinel is submitted to the codec at most once, whatever
\* the frame counts and however many calls follow the end of the stream.
C25_SentinelSubmittedOnce == sentinels <= 1

\* What holds instead: the sentinel is submitted only at a container read
\* that returns end of input, one submission per such read, and never once
\* the codec has accepted a sentinel, so reads made after the stream is
\* exhausted submit nothing; a sentinel the codec rejected is submitted
\* again by the next call that reaches the end of input.
SentinelAcceptedOnce ==
    [][/\ sentinels' > sentinels =>
            /\ rd.pc = "feed" /\ cpos > Len(container) /\ cpos' = cpos
            /\ sentinels' = sentinels + 1
            /\ ~cdraining
            /\ rd'.draining
       /\ (cdraining /\ cdraining') => sentinels' = sentinels
       /\ (rd.pc = "feed" /\ cpos > Len(container) /\ rd'.pc = "loop")
             => sentinels' = sentinels + 1
       /\ (~cdraining /\ cdraining') => sentinels' = sentinels + 1]_vars
\* a read made after the stream was exhausted has returned, one sentinel so far
ReadAfterExhaustion ==
    /\ ret.op = "read" /\ ret.result = RESULT_SUCCESS
    /\ ret.rem = 0 /\ ret.out = 0
    /\ cdraining /\ sentinels = 1
    /\ Len(container) > 0

\* C26: every read call that has started returns, and every step of its
\* loop consumes one decoded frame from the codec, advances the output
\* cursor, reads exactly one container packet, submits the sentinel, or
\* leaves the loop; the answer "needs more input" is followed, in the same
\* iteration, by the container read or the return.  (ReadMeasure bounds the
\* steps left: it is never negative and every step that stays in the call
\* lowers it.)
ReadMeasure ==
    4 * (Len(container) + 1 - cpos) + 2 * Len(cq)
      + (IF rd.draining THEN 0 ELSE 3) + (IF rd.pc = "loop" THEN 1 ELSE 0)
ReadStepProgress ==
    \/ Len(cq') = Len(cq) - 1
    \/ Len(rd'.outbuf) > Len(rd.outbuf)
    \/ cpos' = cpos + 1
    \/ sentinels' = sentinels + 1
    \/ rd'.pc = "idle"
C26_ReadTerminates ==
    /\ [][rd.pc # "idle" =>
            /\ ReadMeasure >= 0
            /\ rd'.pc # "idle" => ReadMeasure' < ReadMeasure
            /\ rd.pc = "feed" => ReadStepProgress
            /\ rd.pc = "loop" =>
                  \/ ReadStepProgress
                  \/ rd'.pc = "feed" /\ ~CodecHasFrame /\ ~CodecAtEOF]_vars
    /\ (rd.pc # "idle") ~> (rd.pc = "idle")
\* a read has returned after it read past a packet of another stream and
\* drained the codec
C26_Witness ==
    /\ ret.op = "read" /\ ret.result = RESULT_SUCCESS
    /\ rd.pc = "idle"
    /\ cdraining /\ cq = <<>>
    /\ \E i \in 1..Len(container) : container[i] # audio
    /\ Len(ret.outbuf) > 0

\* C27: inside a read, a packet or the sentinel is submitted to the codec
\* only in the step right after the codec answered "needs more input" to a
\* receive attempt; that answer is followed by exactly one container read
\* (one packet, end of input, or a read error) and then the codec is polled
\* again or the call returns; when the answer comes after the sentinel was
\* submitted in the same call, no container read is made, nothing is
\* submitted, and the call returns success.
NeedsMoreInput ==
    rd.pc = "loop" /\ rd.frames_read < rd.frameCount /\ ~CodecHasFrame /\ ~CodecAtEOF
C27_FeedDrainAlternation ==
    [][/\ (Len(cq') > Len(cq) \/ sentinels' > sentinels) => rd.pc = "feed"
       /\ rd'.pc = "feed" => (NeedsMoreInput /\ ~rd.draining /\ cpos' = cpos /\ cq' = cq)
       /\ (NeedsMoreInput /\ ~rd.draining /\ nerrs' = nerrs) => rd'.pc = "feed"
       /\ rd.pc = "feed" =>
             /\ rd'.pc \in {"loop", "idle"}
             /\ \/ cpos' = cpos + 1 /\ sentinels' = sentinels /\ Len(cq') <= Len(cq) + 1
                \/ cpos' = cpos /\ sentinels' = sentinels + 1 /\ cq' = cq
                \/ cpos' = cpos /\ sentinels' = sentinels /\ cq' = cq /\ rd'.pc = "idle"
       /\ (rd.pc # "idle" /\ cpos' # cpos) => rd.pc = "feed"
       \* (nerrs' = nerrs: the receive attempt answers, it does not fail)
       /\ (NeedsMoreInput /\ rd.draining /\ nerrs' = nerrs) =>
             /\ rd'.pc = "idle"
             /\ cpos' = cpos /\ cq' = cq /\ sentinels' = sentinels
             /\ ret'.op = "read" /\ ret'.result = RESULT_SUCCESS]_vars
\* in one call the codec was polled, two packets were read one after the
\* other answer, and the second one is inside the codec
C27_Witness ==
    /\ rd.pc = "loop" /\ ncalls = 1 /\ ~seeked
    /\ cpos = 3 /\ container[2] = audio
    /\ Len(cq) > 0
\* the codec asked for input after the sentinel of the same call
SentinelThenNeedsMoreInput == NeedsMoreInput /\ rd.draining

\* C28: at every point of a read, frames_read is at most frameCount and the
\* output cursor stands frames_read frames after the start of the caller's
\* buffer (the model's buffer holds one entry per frame of target_channels *
\* target_bytes_per_sample bytes, and the cursor is the end of what was
\* written), so nothing is written at or beyond frame frameCount; the count
\* the call stores is the number of frames it wrote.
C28_OutputBound ==
    /\ rd.pc # "idle" =>
          /\ 0 <= rd.frames_read /\ rd.frames_read <= rd.frameCount
          /\ Len(rd.outbuf) = rd.frames_read
    /\ (ret.op = "read" /\ ret.result # RESULT_ERROR_INVALID_ARGS) =>
          /\ Len(ret.outbuf) <= ret.frameCount
          /\ ret.out = Len(ret.outbuf)
\* the caller's buffer is full and the resampler keeps what did not fit
C28_Witness ==
    /\ rd.pc = "loop"
    /\ rd.frames_read = rd.frameCount
    /\ Len(rd.outbuf) = rd.frameCount
    /\ swrbuf # <<>>

\* C29: after a successful sf_decoder_init exactly one stream, the selected
\* audio stream, is not marked discarded; inside a read a packet enters the
\* codec only if its stream index is the selected one, and a packet of
\* another stream is dropped: the codec and the resampler are not touched,
\* nothing is returned, and the loop goes on to poll the codec.
C29_StreamFiltering ==
    /\ [](dstate = "ready" =>
            /\ stream_index = audio
            /\ {st \in Streams : ~discard[st]} = {stream_index})
    /\ [][/\ Len(cq') > Len(cq) =>
               /\ rd.pc = "feed" /\ cpos <= Len(container)
               /\ container[cpos] = stream_index
               /\ cq' = Append(cq, FrameOfPacket(cpos))
          /\ (rd.pc = "feed" /\ cpos' = cpos + 1 /\ container[cpos] # stream_index) =>
               /\ cq' = cq /\ cdraining' = cdraining /\ sentinels' = sentinels
               /\ swrbuf' = swrbuf
               /\ ret' = ret /\ nerrs' = nerrs
               /\ rd' = [rd EXCEPT !.pc = "loop"]]_vars
\* the first read has read past a packet of the other stream
C29_Witness ==
    /\ rd.pc = "loop" /\ ncalls = 1 /\ ~seeked
    /\ cpos = 2 /\ container[1] # stream_index
    /\ cq = <<>>
    /\ discard[container[1]]

\* C30: when sf_decoder_seek_to_pcm_frame has returned success, the codec
\* and the resampler hold nothing (no decoded frame, no residue of an
\* earlier read), and the read that follows delivers, from its first sample
\* on, the frames of the packets that follow the packet the seek landed on
\* and nothing else.  (Stated for a read with a frame count in the int range
\* and without engine failure.)
C30_SeekDropsBufferedAudio ==
    /\ (ret.op = "seek" /\ ret.result = RESULT_SUCCESS) =>
          /\ cq = <<>> /\ swrbuf = <<>> /\ ~cdraining
    /\ (ValidRead /\ ret.fresh /\ ~ret.err /\ InIntRange(ret.frameCount)) =>
          /\ Contiguous(ret.outbuf, ret.start + FrameLen)
          /\ ret.out = Min(ret.frameCount, ret.rem)
\* a seek has succeeded while the codec or the resampler held audio
C30_Witness ==
    /\ ret.op = "seek" /\ ret.result = RESULT_SUCCESS /\ ret.held
    /\ cq = <<>> /\ swrbuf = <<>>
\* the read after a successful seek has delivered frames
FreshReadDelivered ==
    /\ ValidRead /\ ret.fresh /\ ~ret.err
    /\ ret.out > 0
    /\ Contiguous(ret.outbuf, ret.start + FrameLen)

\* ---------------------------------------------------------------------------
\* a is released before b; every object of S is released exactly once
ReleasedBefore(order, a, b) ==
    \E i, j \in 1..Len(order) : i < j /\ order[i] = a /\ order[j] = b
ReleasedOnce(order, S) ==
    /\ Len(order) = Cardinality(S)
    /\ \A r \in S : Cardinality({i \in 1..Len(order) : order[i] = r}) = 1

\* C31: sf_decoder_free and sf_encoder_free on a successfully initialised
\* instance release the codec context before the container context, release
\* the staging buffer and its I/O context before the container context is torn
\* down, and release every object (codec context, staging buffer, I/O context,
\* container context, packet, frame, resampler, instance) exactly once: none
\* twice, none left allocated, no freed memory touched.
C31_TeardownOrder ==
    /\ (dstate = "freed" /\ init_fail = "none") =>
          /\ ret.op = "free"
          /\ ReleasedBefore(ret.order, "codec_ctx", "format_ctx")
          /\ ReleasedBefore(ret.order, "io_buffer", "format_ctx")
          /\ ReleasedBefore(ret.order, "avio_ctx", "format_ctx")
          /\ ReleasedOnce(ret.order, Resources)
          /\ \A r \in Resources : res[r] = "freed"
          /\ \A f \in Fields : ptr[f] = "null"
          /\ faults = {}
    /\ (estate = "freed" /\ einit_fail = "none") =>
          /\ ret.op = "efree"
          /\ ReleasedBefore(ret.order, "codec_ctx", "format_ctx")
          /\ ReleasedBefore(ret.order, "io_buffer", "format_ctx")
          /\ ReleasedBefore(ret.order, "avio_ctx", "format_ctx")
          /\ ReleasedOnce(ret.order, EncResources)
          /\ \A r \in EncResources : eres[r] = "freed"
          /\ efaults = {}

\* a decoder that was initialised, has read packets and was freed
C31_Witness ==
    /\ dstate = "freed" /\ init_fail = "none"
    /\ cpos > 1
    /\ ret.op = "free" /\ Len(ret.order) = Cardinality(Resources)

\* an encoder that was initialised, has accepted a write and was freed
EncoderTornDown ==
    /\ estate = "freed" /\ einit_fail = "none"
    /\ next_pts > 0
    /\ ret.op = "efree" /\ Len(ret.order) = Cardinality(EncResources)

\* ---------------------------------------------------------------------------
\* C32: when the selected stream declares no duration and the container's
\* duration D (in units of 1/AV_TIME_BASE s) is known, the length returned is
\* the number of PCM frames D spans: D * sample_rate / AV_TIME_BASE, rounded.
C32_ContainerDurationFallback ==
    (/\ ret.op = "get_length"
     /\ ~ret.d.null /\ ret.d.format_ctx = "set" /\ ret.d.stream_index >= 0
     /\ ret.d.duration = AV_NOPTS_VALUE
     /\ ret.d.format_duration # AV_NOPTS_VALUE)
        => ret.result = av_rescale(ret.d.format_duration, ret.d.sample_rate, AV_TIME_BASE)

\* ---------------------------------------------------------------------------
\* C33: a call of sf_encoder_write_pcm_frames that returns an error (invalid
\* arguments, allocation failure, encoding failed, write failed) leaves
\* next_pts at the value it had when the call began, and no step outside a
\* write call changes next_pts once the encoder is initialised.
C33_NextPtsCountsAccepted ==
    [][/\ (ret'.op = "write" /\ ret'.result # RESULT_SUCCESS)
            => next_pts' = (IF wr.pc = "idle" THEN next_pts ELSE wr.pts)
       /\ (next_pts' # next_pts) => (estate = "ready" /\ wr.pc = "idle"
                                        /\ ret'.op = "writing")]_vars

\* the part that holds: next_pts moves only in the step of a write that stamps
\* a frame, by that frame's sample count, and a write that stamps none
\* (invalid arguments, allocation failure) leaves it alone
NextPtsMovesAtStamp ==
    [][/\ (next_pts' # next_pts) =>
            /\ estate = "ready" /\ wr.pc = "idle" /\ ret'.op = "writing"
            /\ submitted' = Append(submitted, [pts |-> next_pts, req |-> ret'.frameCount,
                                                n |-> next_pts' - next_pts])
       /\ (ret'.op = "write" /\ wr.pc = "idle") => next_pts' = next_pts]_vars

\* a write returned SF_RESULT_ENCODER_ERROR_ENCODING_FAILED after the codec
\* rejected its frame
RejectedFrameReturned ==
    /\ ret.op = "write" /\ ret.result = RESULT_ENCODER_ERROR_ENCODING_FAILED
    /\ ret.codecErr /\ eq = <<>> /\ handed = <<>>
    /\ next_pts > 0

\* ---------------------------------------------------------------------------
\* C34: every frame handed to the codec holds exactly the frame count of the
\* write that made it, and a write that returns success has advanced next_pts
\* by its frame count and reports that count, the number of samples submitted,
\* in *out_frames_written: whatever the width of frameCount.
C34_FrameSizeIsRequest ==
    /\ \A k \in 1..Len(submitted) : submitted[k].n = submitted[k].req
    /\ (ret.op = "write" /\ ret.result = RESULT_SUCCESS) =>
          /\ Len(submitted) > 0
          /\ ret.out = ret.frameCount
          /\ submitted[Len(submitted)].n = ret.out
          /\ next_pts = submitted[Len(submitted)].pts + ret.frameCount

\* the same for the writes whose frame count fits an int
FrameSizeIsRequestInInt ==
    /\ \A k \in 1..Len(submitted) :
          InIntRange(submitted[k].req) => submitted[k].n = submitted[k].req
    /\ (ret.op = "write" /\ ret.result = RESULT_SUCCESS /\ InIntRange(ret.frameCount)) =>
          /\ Len(submitted) > 0
          /\ ret.out = ret.frameCount
          /\ submitted[Len(submitted)].n = ret.out
          /\ next_pts = submitted[Len(submitted)].pts + ret.frameCount

\* a write of more frames than an int holds returned success
WideWriteSucceeded ==
    /\ ret.op = "write" /\ ret.result = RESULT_SUCCESS
    /\ ~InIntRange(ret.frameCount)

\* ---------------------------------------------------------------------------
\* C35: with no seek and no engine failure, every read succeeds and returns
\* the frames that follow those already delivered, in stream order, without
\* gap or repetition; what it does not return stays in the container, the
\* codec or the resampler for the reads that follow; and a read returns 0
\* frames only when nothing is left.  The reads of a decoder, whatever their
\* frame counts, therefore deliver the whole decoded stream once.
C35_ChunkingIndependence ==
    (ValidRead /\ ~seeked /\ nerrs = 0) =>
        /\ ret.result = RESULT_SUCCESS
        /\ ret.out = Len(ret.outbuf)
        /\ Contiguous(ret.outbuf, TotalSamples - ret.rem + 1)
        /\ Remaining = ret.rem - Len(ret.outbuf)
        /\ (ret.out = 0 => ret.rem = 0)

\* the same for a decoder whose reads all had frame counts that fit an int
\* (ret.start > 0: so had the reads before this one)
ChunkingInIntRange ==
    (ValidRead /\ ~seeked /\ nerrs = 0 /\ InIntRange(ret.frameCount) /\ ret.start > 0) =>
        /\ ret.result = RESULT_SUCCESS
        /\ ret.start = TotalSamples - ret.rem + 1
        /\ ret.out = Len(ret.outbuf)
        /\ Contiguous(ret.outbuf, TotalSamples - ret.rem + 1)
        /\ Remaining = ret.rem - Len(ret.outbuf)
        /\ (ret.out = 0 => ret.rem = 0)

\* a read that began with samples left in the resampler by the read before
\* it, delivered them and reached the end of the stream
LeftoverDelivered ==
    /\ ValidRead /\ ~seeked /\ nerrs = 0 /\ InIntRange(ret.frameCount) /\ ret.start > 0
    /\ ret.rem % FrameLen # 0
    /\ ret.out = ret.rem /\ Remaining = 0

\* a read whose frame count is negative as an int returned no frame and left
\* none behind
WideReadDroppedFrames ==
    /\ ValidRead /\ ~seeked /\ nerrs = 0
    /\ ToInt(ret.frameCount) < 0
    /\ ret.result = RESULT_SUCCESS /\ ret.out = 0
    /\ ret.rem > 0 /\ Remaining = 0

\* ---------------------------------------------------------------------------
\* C36: after a successful seek made on an exhausted decoder (sentinel with
\* the codec, nothing left to deliver), the next read delivers the frames from
\* the sought position on: contiguously from the first frame of the packet the
\* seek landed on, as many as were asked for or as there are up to the end.
C36_SeekRevivesExhausted ==
    (ValidRead /\ ret.revived /\ nerrs = 0 /\ InIntRange(ret.frameCount)) =>
        /\ ret.result = RESULT_SUCCESS
        /\ Contiguous(ret.outbuf, ret.start)
        /\ ret.out = Min(ret.frameCount, TotalSamples - ret.start + 1)

\* the part that holds: the seek leaves the codec out of its draining mode
\* with no sentinel on record, and the read after it delivers, contiguously
\* and up to the end of the stream, the frames of the packets that follow the
\* one the seek landed on
RevivedReadsFollowingPackets ==
    /\ (ret.op = "seek" /\ ret.revived) =>
          (ret.result = RESULT_SUCCESS /\ ~cdraining /\ sentinels = 0 /\ ~Exhausted)
    /\ (ValidRead /\ ret.revived /\ nerrs = 0 /\ InIntRange(ret.frameCount)) =>
          /\ ret.result = RESULT_SUCCESS
          /\ ret.out = Len(ret.outbuf)
          /\ ret.out = Min(ret.frameCount, ret.rem)
          /\ Contiguous(ret.outbuf, TotalSamples - ret.rem + 1)
          /\ Remaining = ret.rem - ret.out
          /\ (ret.out < ret.frameCount => Exhausted)

\* a read after such a seek delivered frames and exhausted the decoder again
RevivedReadReachedEnd ==
    /\ ValidRead /\ ret.revived /\ nerrs = 0 /\ InIntRange(ret.frameCount)
    /\ ret.out > 0 /\ Exhausted /\ sentinels = 1

\* ---------------------------------------------------------------------------
\* C37: a seek that returns SF_RESULT_DECODER_ERROR_SEEK_FAILED leaves the
\* container position, the frames inside the codec and the samples inside the
\* resampler as they were before the call.
C37_FailedSeekChangesNothing ==
    [][(ret'.op = "seek" /\ ret'.result = RESULT_DECODER_ERROR_SEEK_FAILED)
          => (cpos' = cpos /\ cq' = cq /\ swrbuf' = swrbuf)]_vars

\* the part that holds: a failed seek leaves the container position alone,
\* and a seek rejected for its arguments leaves everything alone
FailedSeekKeepsPosition ==
    [][/\ (ret'.op = "seek" /\ ret'.result = RESULT_DECODER_ERROR_SEEK_FAILED)
            => (cpos' = cpos /\ cq' = <<>> /\ swrbuf' = <<>> /\ ~cdraining')
       /\ (ret'.op = "seek" /\ ret'.result = RESULT_ERROR_INVALID_ARGS)
            => UNCHANGED <<cpos, cq, cdraining, sentinels, swrbuf>>]_vars

\* a first seek failed and took undelivered audio with it
FailedSeekLostAudio ==
    /\ ret.op = "seek" /\ ret.result = RESULT_DECODER_ERROR_SEEK_FAILED
    /\ ~seekok /\ expect > 0
    /\ (expect - 1) + Remaining < TotalSamples

====
